---------------------------- MODULE Spec2Model ----------------------------
(* State-machine model of the sdap-nexus tile code:                        *)
(*   - NexusTileData.get_lat_lon_time_data_meta / _to_standard_index       *)
(*     (data-access/nexustiles/dao/CassandraProxy.py)                      *)
(*   - CassandraProxy.fetch_nexus_tiles                                    *)
(*   - CassandraProxy.__init__ under INIT_LOCK                             *)
(*   - SolrProxy.find_tiffs_in_date_range, date_range_for_dataset and      *)
(*     find_days_in_range_asc (backends/cog/SolrProxy.py)                  *)
(*   - the tile-service methods of CoGBackend (backends/cog/backend.py)    *)
(*   - tools/proto-to-zarr/prototozarr.py: parse_args and _exists, the     *)
(*     per-day query, the fetch and delete loops, the slice of a day,      *)
(*     the confirmation prompt                                             *)
(*   - docker/solr/cloud-init/create-collection.py                         *)
(*   - TileFetch.parse_args (analysis/webservice/algorithms/TileFetch.py)  *)
EXTENDS Integers, Sequences, FiniteSets, TLC

VARIABLES
    tile,       \* the stored TileData record handed to reconstruction
    result,     \* what get_lat_lon_time_data_meta returned or raised
    index,      \* Solr: the tile documents of the collection
    query,      \* Solr: the arguments of the pending / last query
    qres,       \* Solr: the documents the last query returned
    qstate,     \* Solr: "pending" before the query ran, "done" after
    store,      \* Cassandra: the tile ids that have a row in sea_surface_temp
    request,    \* the *tile_ids argument of fetch_nexus_tiles
    fres,       \* the list fetch_nexus_tiles returned
    fstate,     \* "pending", "returned", or the exception the call raised
    pc,             \* proto-to-zarr main: the statement about to run
    args,           \* the command line switches keep and yes
    day_ids,        \* per day, the tile ids the index holds for it
    day,            \* index of the day the loop of line 379 is at
    ids,            \* the ids of the next fetch attempt
    tiles,          \* the tile_dicts of the tiles fetched and decoded for this day
    retries,        \* attempts left in the current retry loop
    failed,         \* the ids that failed in the last attempt
    slices,         \* per finished day, the array vals_3d of its slice
    processed_ids,  \* the ids collected for deletion
    batch_no,       \* index of the delete batch the loop is at
    batch,          \* the ids of the next Cassandra delete attempt
    solr_deleted,   \* the ids sent to Solr in a delete
    cass_deleted,   \* the ids whose Cassandra DELETE succeeded
    error_log,      \* the ids reported to the operator
    attempts,       \* history: the attempts made in the current retry loop
    zarr_written,   \* proto-to-zarr: completed_ds.to_zarr has returned
    answer,         \* proto-to-zarr: do_continue, the last answer to the prompt
    argv,           \* proto-to-zarr: the parsed command line
    fsys,           \* proto-to-zarr: what exists on disk and in the bucket
    pstate,         \* proto-to-zarr: outcome of parse_args
    started,        \* proto-to-zarr: main has opened its connections
    variable_names, \* proto-to-zarr: the names of the dataset's variables
    ipc,            \* collection-init: position of each instance
    iattempts,      \* collection-init: attempts of each instance
    istatus,        \* collection-init: the last cluster status each instance got
    ioutcome,       \* collection-init: how each instance left the locked section
    zk,             \* collection-init: state of each instance's ZooKeeper client
    zlock,          \* collection-init: holder of /collection-creator, 0 = free
    nexustiles,     \* collection-init: the collection exists in the cluster
    creates,        \* collection-init: the instances that sent CREATE, in order
    schema,         \* collection-init: the instances that added the schema fields
    tileIds,        \* TileFetch: the value of the tileIds argument
    kept_ids,       \* TileFetch: the tile_ids parse_args returned
    tfstate,        \* TileFetch: outcome of parse_args
    qrange,         \* Solr: the (min_time, max_time) date_range_for_dataset returned
    config,         \* per constructor call, the config it was given
    cpc,            \* per constructor call, the statement of __init__ it is at
    lock,           \* INIT_LOCK: 0 when free, else the call that holds it
    cluster,        \* cqlengine connection: the registered cluster, or NoCluster
    setup_calls,    \* number of connection.setup calls made so far
    ds,             \* CoG backend: self.__ds, the store the backend opened
    call,           \* CoG backend: the method called and its arguments
    cres,           \* CoG backend: what the call returned or raised
    dindex,         \* Solr (days): the tile documents of the collection
    dquery,         \* Solr (days): the arguments of find_days_in_range_asc
    days,           \* Solr (days): the list find_days_in_range_asc returned
    dstate          \* Solr (days): "pending" before the query ran, "done" after

tileVars == <<tile, result>>

solrVars == <<index, query, qres, qstate, qrange>>

fetchVars == <<store, request, fres, fstate>>

convVars == <<pc, args, day_ids, day, ids, tiles, retries, failed, slices,
              processed_ids, batch_no, batch, solr_deleted, cass_deleted,
              error_log, attempts, zarr_written, answer>>

connVars == <<config, cpc, lock, cluster, setup_calls>>

cogVars == <<ds, call, cres>>

daysVars == <<dindex, dquery, days, dstate>>

parseVars == <<argv, fsys, pstate, started>>

sliceVars == <<variable_names>>

createVars == <<ipc, iattempts, istatus, ioutcome, zk, zlock, nexustiles, creates, schema>>

tileFetchVars == <<tileIds, kept_ids, tfstate>>

toolVars == <<parseVars, sliceVars, createVars, tileFetchVars>>

vars == <<tile, result, index, query, qres, qstate, store, request, fres, fstate,
          pc, args, day_ids, day, ids, tiles, retries, failed, slices,
          processed_ids, batch_no, batch, solr_deleted, cass_deleted,
          error_log, attempts, zarr_written, answer, qrange, config, cpc, lock, cluster, setup_calls,
          ds, call, cres, dindex, dquery, days, dstate, argv, fsys, pstate,
          started, variable_names, ipc, iattempts,
          istatus, ioutcome, zk, zlock, nexustiles, creates, schema, tileIds, kept_ids,
          tfstate>>

-----------------------------------------------------------------------------
(* Bounds of the model *)

\* largest number of samples along one axis of a stored tile
MaxN == 2
\* times of the Solr documents and queries range over 0 .. MaxTime
MaxTime == 3
\* largest number of documents in the Solr collection
MaxDocs == 2
\* tile ids are 1 .. MaxIds
MaxIds == 3
\* longest argument list of fetch_nexus_tiles
MaxReq == 2
\* proto-to-zarr: largest number of tiles of the dataset, over all days
MaxTiles == 4
\* proto-to-zarr: rows(500), the page size of the per-day query, scaled down
\* so that a day can hold more tiles than one page
SolrRows == 2
\* proto-to-zarr: number of variables of a dataset
MaxVars == 2
\* collection-init: number of instances, the environment's MAX_RETRIES and
\* MINIMUM_NODES
MaxInst == 2
MAX_RETRIES == 1
MINIMUM_NODES == 1
\* TileFetch: length of the tileIds argument in chunks
MaxChunks == 5
\* number of CassandraProxy constructors running concurrently
MaxProcs == 2
\* longest tile list handed to CoGBackend.fetch_data_for_tiles
MaxFetch == 1
\* proto-to-zarr: SOLR_BATCH_SIZE (256) and CASSANDRA_BATCH_SIZE (1024),
\* scaled down
SolrBatchSize == 2
CassandraBatchSize == 2

-----------------------------------------------------------------------------
(* numpy arrays: [shape |-> <<d1,..,dn>>, cells |-> row-major flat values] *)

\* an invalid float (nan / inf) in a decoded array
NaN == 0 - 1
\* a cell whose mask is True
Masked == 0 - 2

\* sample valid data values, and the values a decoded array may hold
Vals == {1, 2}
RawVals == Vals \cup {NaN}
\* sample coordinate values (degrees)
Coords == {10, 20}

RECURSIVE Size(_)
Size(shape) == IF shape = <<>> THEN 1 ELSE Head(shape) * Size(Tail(shape))

SeqsOfLen(S, n) == [1 .. n -> S]

EmptyArr == [shape |-> <<0>>, cells |-> <<>>]

\* np.ma.masked_invalid(from_shaped_array(x)): nan/inf entries get mask True
MaskedInvalid(a) ==
    [shape |-> a.shape,
     cells |-> [p \in 1 .. Len(a.cells) |->
                   IF a.cells[p] = NaN THEN Masked ELSE a.cells[p]]]

\* np.ma.masked_all(shape)
MaskedAll(shape) ==
    [shape |-> shape, cells |-> [p \in 1 .. Size(shape) |-> Masked]]

\* mutant of NewAxis: the leading axis is not added
NewAxisDropped(a) == a

\* mutant of NewAxis: the new axis is appended, a[:, :, np.newaxis]
NewAxisTrailing(a) == [shape |-> a.shape \o <<1>>, cells |-> a.cells]

\* a[np.newaxis, :]
NewAxis(a) == [shape |-> <<1>> \o a.shape, cells |-> a.cells]

\* a.reshape(-1)
Flatten(a) == [shape |-> <<Len(a.cells)>>, cells |-> a.cells]

\* len(a): length of the first axis
PyLen(a) == a.shape[1]

\* flat (row-major, 1-based) position of the cell (k, k, .., k) of an array
\* of this shape: one entry of np.diag_indices(n, ndim)
RECURSIVE DiagPos(_, _)
DiagPos(shape, k) ==
    IF shape = <<>> THEN 1
    ELSE (k - 1) * Size(Tail(shape)) + DiagPos(Tail(shape), k)

\* flat position of cell [t, i, j] (1-based) of a 3-D array
Pos3(shape, t, i, j) == ((t - 1) * shape[2] + (i - 1)) * shape[3] + j

At(a, t, i, j) == a.cells[Pos3(a.shape, t, i, j)]

Min(S) == CHOOSE x \in S : \A y \in S : x <= y

RECURSIVE SortedAsc(_)
\* sorted(...) of distinct values
SortedAsc(S) ==
    IF S = {} THEN <<>>
    ELSE LET m == CHOOSE x \in S : \A y \in S : x <= y
         IN  <<m>> \o SortedAsc(S \ {m})

\* mutant of AssignDiag: the last observation is not written
AssignDiagShort(arr, n, values) ==
    [shape |-> arr.shape,
     cells |-> [p \in 1 .. Len(arr.cells) |->
                   IF \E k \in 1 .. n - 1 : DiagPos(arr.shape, k) = p
                   THEN LET k == CHOOSE k \in 1 .. n - 1 : DiagPos(arr.shape, k) = p
                        IN  IF Len(values) = 1 THEN values[1] ELSE values[k]
                   ELSE arr.cells[p]]]

\* reshaped_array[np.diag_indices(n, ndim)] = values   (values: flat cells;
\* a single value is broadcast)
AssignDiag(arr, n, values) ==
    [shape |-> arr.shape,
     cells |-> [p \in 1 .. Len(arr.cells) |->
                   IF \E k \in 1 .. n : DiagPos(arr.shape, k) = p
                   THEN LET k == CHOOSE k \in 1 .. n : DiagPos(arr.shape, k) = p
                        IN  IF Len(values) = 1 THEN values[1] ELSE values[k]
                   ELSE arr.cells[p]]]

\* mutant of AssignTimeDiag: only the first time step is written
AssignTimeDiagFirstStep(arr, n, values) ==
    [shape |-> arr.shape,
     cells |-> [p \in 1 .. Len(arr.cells) |->
                   IF \E k \in 1 .. n : Pos3(arr.shape, 1, k, k) = p
                   THEN LET k == CHOOSE k \in 1 .. n : Pos3(arr.shape, 1, k, k) = p
                        IN  IF Len(values) = 1 THEN values[1] ELSE values[k]
                   ELSE arr.cells[p]]]

\* reshaped_array[:, idx, idx] = values  with idx = np.arange(n); values of
\* shape (n,) are broadcast along the first axis
AssignTimeDiag(arr, n, values) ==
    [shape |-> arr.shape,
     cells |-> [p \in 1 .. Len(arr.cells) |->
                   IF \E t \in 1 .. arr.shape[1], k \in 1 .. n :
                          Pos3(arr.shape, t, k, k) = p
                   THEN LET k == CHOOSE k \in 1 .. n :
                                   \E t \in 1 .. arr.shape[1] :
                                       Pos3(arr.shape, t, k, k) = p
                        IN  IF Len(values) = 1 THEN values[1] ELSE values[k]
                   ELSE arr.cells[p]]]

-----------------------------------------------------------------------------
(* NexusTileData *)

Outcome(st, lat, lon, tm, data, meta) ==
    [status |-> st, latitude |-> lat, longitude |-> lon, time |-> tm,
     data |-> data, meta |-> meta]

Raise(exc) == Outcome(exc, EmptyArr, EmptyArr, EmptyArr, EmptyArr, <<>>)

NoResult == Raise("none")

\* TileData.HasField(name) on the tile_type oneof
HasField(t, name) == name \in t.tags

\* the exception _to_standard_index raises, "" when it returns
ToStandardIndexError(data_array, desired_shape) ==
    IF Len(data_array.shape) # 2 THEN "ValueError"
    ELSE IF desired_shape[1] = 1
         THEN IF desired_shape[2] > desired_shape[3] THEN "IndexError"
              ELSE IF Len(data_array.cells) \notin {1, desired_shape[2]}
                   THEN "ValueError" ELSE ""
         ELSE IF desired_shape[2] > Min({desired_shape[1], desired_shape[3]})
              THEN "IndexError"
              ELSE IF Len(data_array.cells) \notin {1, desired_shape[2]}
                   THEN "ValueError" ELSE ""

\* NexusTileData._to_standard_index
ToStandardIndex(data_array, desired_shape) ==
    IF desired_shape[1] = 1
    THEN NewAxis(AssignDiag(MaskedAll(<<desired_shape[2], desired_shape[3]>>),
                            desired_shape[2], data_array.cells))
    ELSE AssignDiag(MaskedAll(desired_shape), desired_shape[2], data_array.cells)

\* mutant of GridCase: the auxiliary variables are returned as stored,
\* without the leading time axis
GridCaseMetaRaw(t) ==
    LET grid_tile_data == MaskedInvalid(t.variable_data)
        Lift(a) == IF Len(a.shape) = 2 THEN NewAxis(a) ELSE a
    IN  Outcome("ok", MaskedInvalid(t.latitude), MaskedInvalid(t.longitude),
                [shape |-> <<1>>, cells |-> <<t.time.cells[1]>>],
                Lift(grid_tile_data),
                [m \in 1 .. Len(t.meta_data) |-> MaskedInvalid(t.meta_data[m])])

\* the grid_tile branch
GridCase(t) ==
    LET grid_tile_data == MaskedInvalid(t.variable_data)
        Lift(a) == IF Len(a.shape) = 2 THEN NewAxis(a) ELSE a
    IN  Outcome("ok", MaskedInvalid(t.latitude), MaskedInvalid(t.longitude),
                [shape |-> <<1>>, cells |-> <<t.time.cells[1]>>],
                Lift(grid_tile_data),
                [m \in 1 .. Len(t.meta_data) |->
                    Lift(MaskedInvalid(t.meta_data[m]))])

\* mutant of SimplifyTime: the test for equal values is missing, the time
\* array is always replaced by its minimum
SimplifyTimeAlways(time_data) ==
    [shape |-> <<1>>,
     cells |-> <<Min({time_data.cells[q] : q \in 1 .. Len(time_data.cells)})>>]

\* "Simplify the tile if the time dimension is the same value repeated"
SimplifyTime(time_data) ==
    IF \A p \in 1 .. Len(time_data.cells) :
           time_data.cells[p] = Min({time_data.cells[q] :
                                        q \in 1 .. Len(time_data.cells)})
    THEN [shape |-> <<1>>,
          cells |-> <<Min({time_data.cells[q] : q \in 1 .. Len(time_data.cells)})>>]
    ELSE time_data

\* the swath_tile branch
SwathCase(t) ==
    LET latitude_data  == Flatten(MaskedInvalid(t.latitude))
        longitude_data == Flatten(MaskedInvalid(t.longitude))
        time_data      == SimplifyTime(Flatten(MaskedInvalid(t.time)))
        swath_tile_data == MaskedInvalid(t.variable_data)
        desired == <<PyLen(time_data), PyLen(latitude_data), PyLen(longitude_data)>>
        err == ToStandardIndexError(swath_tile_data, desired)
        tile_data == ToStandardIndex(swath_tile_data, desired)
        metaErrs == {ToStandardIndexError(MaskedInvalid(t.meta_data[m]), tile_data.shape)
                        : m \in 1 .. Len(t.meta_data)} \ {""}
    IN  IF err # "" THEN Raise(err)
        ELSE IF metaErrs # {} THEN Raise(CHOOSE e \in metaErrs : TRUE)
        ELSE Outcome("ok", latitude_data, longitude_data, time_data, tile_data,
                     [m \in 1 .. Len(t.meta_data) |->
                         ToStandardIndex(MaskedInvalid(t.meta_data[m]),
                                         tile_data.shape)])

\* the time_series_tile branch
TimeSeriesCase(t) ==
    LET time_series_tile_data == MaskedInvalid(t.variable_data)
        time_data      == Flatten(MaskedInvalid(t.time))
        latitude_data  == MaskedInvalid(t.latitude)
        longitude_data == MaskedInvalid(t.longitude)
        shape == <<PyLen(time_data), PyLen(latitude_data), PyLen(longitude_data)>>
        Reshape(a) == AssignTimeDiag(MaskedAll(shape), PyLen(latitude_data), a.cells)
    IN  IF PyLen(latitude_data) > PyLen(longitude_data) THEN Raise("IndexError")
        ELSE IF \E a \in {t.variable_data} \cup {t.meta_data[m] : m \in 1 .. Len(t.meta_data)} :
                    Len(a.cells) \notin {1, PyLen(latitude_data)}
             THEN Raise("ValueError")
        ELSE Outcome("ok", latitude_data, longitude_data, time_data,
                     Reshape(time_series_tile_data),
                     [m \in 1 .. Len(t.meta_data) |->
                         Reshape(MaskedInvalid(t.meta_data[m]))])

\* NexusTileData.get_lat_lon_time_data_meta
GetLatLonTimeDataMeta(t) ==
    IF HasField(t, "grid_tile") THEN GridCase(t)
    ELSE IF HasField(t, "swath_tile") THEN SwathCase(t)
    ELSE IF HasField(t, "time_series_tile") THEN TimeSeriesCase(t)
    ELSE Raise("NotImplementedError")

-----------------------------------------------------------------------------
(* Stored tile records handed to reconstruction *)

Arr(shape, cells) == [shape |-> shape, cells |-> cells]

TileData(tags, lat, lon, tm, data, meta) ==
    [tags |-> tags, latitude |-> lat, longitude |-> lon, time |-> tm,
     variable_data |-> data, meta_data |-> meta]

\* a regular coordinate axis of n points
Axis(n) == Arr(<<n>>, [i \in 1 .. n |-> 10 * i])

\* all-equal times, or one distinct time per observation
TimeSeqs(n) == {[i \in 1 .. n |-> 100], [i \in 1 .. n |-> 100 * i]}

\* meta_data: none, or one auxiliary variable shaped like the data
MetaSeqs(shape, n) ==
    {<<>>} \cup {<<Arr(shape, cells)>> : cells \in SeqsOfLen({NaN, 1}, n)}

\* grid records: (lat, lon) or (1, lat, lon) data, one scalar time
IsGridTile(t) ==
    \E a \in 1 .. MaxN, b \in 1 .. MaxN :
      \E shape \in {<<a, b>>, <<1, a, b>>}, cells \in SeqsOfLen({NaN, 1}, a * b) :
        \E meta \in {<<>>} \cup {<<Arr(ms, [p \in 1 .. a * b |-> 2])>> :
                                    ms \in {<<a, b>>, <<1, a, b>>}} :
          t = TileData({"grid_tile"}, Axis(a), Axis(b), Arr(<<1>>, <<100>>),
                       Arr(shape, cells), meta)

\* swath records: n observations; lat, lon, time and data hold n entries,
\* the data as a 1-D, (1, n) or (n, 1) array
IsSwathTile(t) ==
    \E n \in 1 .. MaxN :
      \E shape \in {<<n>>, <<1, n>>, <<n, 1>>} :
        \E lat \in SeqsOfLen(Coords, n), lon \in SeqsOfLen(Coords, n),
           tm \in TimeSeqs(n), cells \in SeqsOfLen(RawVals, n),
           meta \in MetaSeqs(shape, n) :
          t = TileData({"swath_tile"}, Arr(<<n>>, lat), Arr(<<n>>, lon),
                       Arr(<<n>>, tm), Arr(shape, cells), meta)

\* time-series records: n samples, tt time steps
IsTimeSeriesTile(t) ==
    \E n \in 1 .. MaxN, tt \in 1 .. MaxN :
      \E cells \in SeqsOfLen(RawVals, n), meta \in MetaSeqs(<<n>>, n) :
        t = TileData({"time_series_tile"}, Axis(n), Axis(n),
                     Arr(<<tt>>, [i \in 1 .. tt |-> 100 * i]), Arr(<<n>>, cells), meta)

\* a record with none of the three fields set
IsUntaggedTile(t) ==
    t = TileData({}, EmptyArr, EmptyArr, EmptyArr, EmptyArr, <<>>)

NoTile == TileData({"unset"}, EmptyArr, EmptyArr, EmptyArr, EmptyArr, <<>>)

-----------------------------------------------------------------------------
(* Reconstruction of one stored tile *)

IdleTile == tile = NoTile /\ result = NoResult

InitTile ==
    /\ \/ IsGridTile(tile)
       \/ IsSwathTile(tile)
       \/ IsTimeSeriesTile(tile)
       \/ IsUntaggedTile(tile)
    /\ result = NoResult

\* a call of tile.get_lat_lon_time_data_meta()
Reconstruct ==
    /\ tile # NoTile
    /\ result = NoResult
    /\ result' = GetLatLonTimeDataMeta(tile)
    /\ UNCHANGED tile

-----------------------------------------------------------------------------
(* SolrProxy (backends/cog): queries against the tile index *)

Datasets == {"dsA", "dsB"}

Times == 0 .. MaxTime

\* a tile document: dataset_s, min_time_dt, max_time_dt
Docs == {d \in [dataset : Datasets, min_time : Times, max_time : Times] :
            d.min_time <= d.max_time}

\* a Solr range clause  field:[lo TO hi]  (both ends inclusive)
InRange(x, lo, hi) == lo <= x /\ x <= hi

\* mutant of TimeClause: the clause for a tile that spans the whole query
\* interval is missing
TimeClauseNoSpan(d, start, end) ==
    \/ InRange(d.min_time, start, end)
    \/ InRange(d.max_time, start, end)

\* the fq time_clause of find_tiffs_in_date_range, evaluated on document d
TimeClause(d, start, end) ==
    \/ InRange(d.min_time, start, end)
    \/ InRange(d.max_time, start, end)
    \/ (d.min_time <= start /\ d.max_time >= end)

\* the q clause  dataset_s:<dataset>
DatasetClause(d, dataset) == d.dataset = dataset

\* nothing returned by date_range_for_dataset (yet)
NoRange == <<>>

InitSolr ==
    /\ \E n \in 0 .. MaxDocs : \E f \in [1 .. n -> Docs] :
           index = {f[k] : k \in 1 .. n}
    /\ query \in [dataset : Datasets, start : Times, end : Times]
    /\ qres = {}
    /\ qstate = "pending"
    /\ qrange = NoRange

IdleSolr ==
    /\ index = {}
    /\ query = [dataset |-> "dsA", start |-> 0, end |-> 0]
    /\ qres = {}
    /\ qstate = "idle"
    /\ qrange = NoRange

\* SolrProxy.find_tiffs_in_date_range(dataset, start, end)
FindTiffsInDateRange ==
    /\ qstate = "pending"
    /\ qres' = {d \in index : /\ DatasetClause(d, query.dataset)
                               /\ TimeClause(d, query.start, query.end)}
    /\ qstate' = "done"
    /\ UNCHANGED <<index, query, qrange>>
    /\ UNCHANGED <<tileVars, fetchVars, convVars, connVars, cogVars, daysVars, toolVars>>

\* do_query with rows = 1 and sort = ['max_time_dt desc']: the documents of
\* the dataset, the one with the latest max_time_dt first, cut to one row
DoQueryMaxTimeDesc(docs, dataset) ==
    LET found == {d \in docs : DatasetClause(d, dataset)}
    IN  IF found = {} THEN <<>>
        ELSE <<CHOOSE d \in found : \A e \in found : e.max_time <= d.max_time>>

\* do_query with rows = 1 and sort = ['min_time_dt asc']
DoQueryMinTimeAsc(docs, dataset) ==
    LET found == {d \in docs : DatasetClause(d, dataset)}
    IN  IF found = {} THEN <<>>
        ELSE <<CHOOSE d \in found : \A e \in found : d.min_time <= e.min_time>>

\* SolrProxy.date_range_for_dataset(dataset): results[0] of an empty result
\* list raises IndexError
DateRangeForDataset ==
    /\ qstate = "pending"
    /\ LET first == DoQueryMaxTimeDesc(index, query.dataset)
           second == DoQueryMinTimeAsc(index, query.dataset)
       IN  IF Len(first) = 0
           THEN qstate' = "IndexError" /\ qrange' = NoRange
           ELSE /\ qstate' = "range"
                /\ qrange' = <<second[1].min_time, first[1].max_time>>
    /\ UNCHANGED <<index, query, qres>>
    /\ UNCHANGED <<tileVars, fetchVars, convVars, connVars, cogVars, daysVars, toolVars>>

-----------------------------------------------------------------------------
(* CassandraProxy.fetch_nexus_tiles *)

Ids == 1 .. MaxIds

\* the text of a string argument that is no well-formed UUID
Malformed == 0

\* an argument of fetch_nexus_tiles: a str or unicode holding the text of a
\* UUID (or malformed text), or an object of another type (a uuid.UUID)
Args ==
    [type : {"str", "unicode"}, uuid : Ids \cup {Malformed}]
      \cup [type : {"UUID"}, uuid : Ids]

\* isinstance(tile_id, str) or isinstance(tile_id, unicode)
IsString(a) == a.type \in {"str", "unicode"}

RECURSIVE SelectSeq2(_, _)
\* [x for x in seq if keep[x]] with keep a set
SelectSeq2(seq, keep) ==
    IF seq = <<>> THEN <<>>
    ELSE IF Head(seq) \in keep THEN <<Head(seq)>> \o SelectSeq2(Tail(seq), keep)
         ELSE SelectSeq2(Tail(seq), keep)

\* the list comprehension of line 192: the string arguments, in order
StringArgs(req) == SelectSeq2(req, {a \in Args : IsString(a)})

\* mutant of Lookup: a missing row is returned as an empty record
LookupKeepMissing(tile_ids, rows) == tile_ids

\* the loop of lines 195-199: the ids that have a row, in order
Lookup(tile_ids, rows) == SelectSeq2(tile_ids, rows)

InitFetch ==
    /\ store \in SUBSET Ids
    /\ request \in UNION {[1 .. n -> Args] : n \in 0 .. MaxReq}
    /\ fres = <<>>
    /\ fstate = "pending"

IdleFetch ==
    /\ store = {}
    /\ request = <<>>
    /\ fres = <<>>
    /\ fstate = "idle"

\* CassandraProxy.fetch_nexus_tiles(*tile_ids)
FetchNexusTiles ==
    /\ fstate = "pending"
    /\ LET strs == StringArgs(request)
       IN  IF \E k \in 1 .. Len(strs) : strs[k].uuid = Malformed
           THEN fstate' = "ValueError" /\ fres' = <<>>
           ELSE /\ fstate' = "returned"
                /\ fres' = Lookup([k \in 1 .. Len(strs) |-> strs[k].uuid], store)
    /\ UNCHANGED <<store, request>>

-----------------------------------------------------------------------------
(* tools/proto-to-zarr/prototozarr.py: main, from the day loop (line 379)  *)
(* to the end of the delete (line 628).                                   *)
(* cassandra.concurrent.execute_concurrent_with_args is called without    *)
(* raise_on_first_error (lines 410-415, 605-610), whose default is True:   *)
(* the call raises the exception of the first statement that failed and    *)
(* returns (True, result) pairs, in request order, only when none did.     *)

\* retries = 3
RetryCeiling == 3
\* sleep(2)
SleepSeconds == 2

Range(seq) == {seq[k] : k \in 1 .. Len(seq)}

\* the entries of seq at the positions in pos, in order
RECURSIVE AtPositions(_, _, _)
AtPositions(seq, pos, k) ==
    IF k > Len(seq) THEN <<>>
    ELSE (IF k \in pos THEN <<seq[k]>> ELSE <<>>) \o AtPositions(seq, pos, k + 1)

\* [seq[i:i+size] for i in range(0, len(seq), size)]
RECURSIVE Batches(_, _)
Batches(seq, size) ==
    IF seq = <<>> THEN <<>>
    ELSE IF Len(seq) <= size THEN <<seq>>
    ELSE <<SubSeq(seq, 1, size)>> \o Batches(SubSeq(seq, size + 1, Len(seq)), size)

\* the tiles k .. n of the dataset grouped by day: a day ends at each tile
\* of cuts (the per-day Solr queries of lines 384-395 return one run each,
\* or nothing for a day whose tiles left the index after the facet query)
RECURSIVE DayRuns(_, _, _)
DayRuns(k, n, cuts) ==
    IF k > n THEN <<>>
    ELSE LET e == Min({c \in cuts : c >= k} \cup {n})
         IN  <<[i \in 1 .. e - k + 1 |-> k + i - 1]>> \o DayRuns(e + 1, n, cuts)

\* no statement of a pass failed
NoStatement == 0

\* what a pass of the fetch loop raised out of main
NotRaised == "none"
DriverError == "driver error"
DecodeError == "TypeError"

\* an entry of the history of attempts: the ids requested, failed as the
\* pass left it, the seconds slept after the pass, what the pass raised and
\* the id of the statement whose failure the driver raised
Attempt(loop, req, fail, raised, stmt) ==
    [loop |-> loop, req |-> req, failed |-> fail, delay |-> 0,
     raised |-> raised, stmt |-> stmt]

\* do_continue before the prompt was shown
NoAnswer == "none"

\* what the operator may type at the prompt
Typed == {"", "y", "n", "Y", "N", "yes", "q"}

\* str.lower() on those inputs
Lower(typed) ==
    CASE typed = "Y" -> "y"
      [] typed = "N" -> "n"
      [] OTHER -> typed

\* the first rows documents of a result: the page a search with rows(n) returns
FirstRows(docs, rows) == SubSeq(docs, 1, IF Len(docs) < rows THEN Len(docs) ELSE rows)

\* the names a dataset's variables are taken from
Names == <<"a", "b", "c", "d">>

\* the position of value x in array arr, 0 when it is absent
IndexOf(arr, x) ==
    IF \E i \in 1 .. Len(arr) : arr[i] = x
    THEN CHOOSE i \in 1 .. Len(arr) : arr[i] = x
    ELSE 0

\* lines 462-465: the tiles that wrote the key (variable number v, t, lat, lon)
Writers(tile_list, v, t, lat, lon) ==
    {n \in 1 .. Len(tile_list) :
        /\ tile_list[n].time = t
        /\ IndexOf(tile_list[n].latitude, lat) > 0
        /\ IndexOf(tile_list[n].longitude, lon) > 0}

\* data_dict.get((variable_names[v], t, lat, lon), np.nan): the value the last
\* writer left
DataDictGet(tile_list, v, t, lat, lon) ==
    LET writers == Writers(tile_list, v, t, lat, lon)
    IN  IF writers = {} THEN NaN
        ELSE LET n == CHOOSE m \in writers : \A o \in writers : o <= m
             IN  tile_list[n].data[<<v, IndexOf(tile_list[n].latitude, lat),
                                     IndexOf(tile_list[n].longitude, lon)>>]

\* lines 445-447: np.unique, the sorted distinct values
UniqueLats(tile_list) ==
    SortedAsc(UNION {Range(tile_list[n].latitude) : n \in 1 .. Len(tile_list)})

UniqueLons(tile_list) ==
    SortedAsc(UNION {Range(tile_list[n].longitude) : n \in 1 .. Len(tile_list)})

UniqueTimes(tile_list) ==
    SortedAsc({tile_list[n].time : n \in 1 .. Len(tile_list)})

\* lines 449 and 467-471: vals_3d. The key that is read for cell [v, i, j, k]
\* is built from variable_names[i], i being the index of the time
Vals3d(tile_list) ==
    LET lats  == UniqueLats(tile_list)
        lons  == UniqueLons(tile_list)
        times == UniqueTimes(tile_list)
    IN  [x \in (1 .. Len(variable_names)) \X (1 .. Len(times))
               \X (1 .. Len(lats)) \X (1 .. Len(lons)) |->
           DataDictGet(tile_list, x[2], times[x[2]], lats[x[3]], lons[x[4]])]

\* line 379: main is at the day loop. It gets there with the variable names
\* of the sample document (line 337) and the days of the facet query
InitConvert ==
    /\ pc = "day"
    /\ variable_names \in {SubSeq(Names, 1, nvars) : nvars \in 1 .. MaxVars}
    /\ args \in [keep : BOOLEAN, yes : BOOLEAN]
    /\ \E n \in 1 .. MaxTiles : \E cuts \in SUBSET (1 .. n - 1) :
           LET runs == DayRuns(1, n, cuts)
           IN  \E gone \in SUBSET (1 .. Len(runs)) :
                   day_ids = [d \in 1 .. Len(runs) |->
                                 IF d \in gone THEN <<>> ELSE runs[d]]
    /\ day = 1
    /\ ids = <<>> /\ tiles = <<>> /\ retries = 0 /\ failed = <<>>
    /\ slices = <<>> /\ processed_ids = <<>>
    /\ batch_no = 0 /\ batch = <<>>
    /\ solr_deleted = {} /\ cass_deleted = {} /\ error_log = {}
    /\ attempts = <<>>
    /\ zarr_written = FALSE /\ answer = NoAnswer

IdleConvert ==
    /\ pc = "idle"
    /\ variable_names = <<>>
    /\ args = [keep |-> TRUE, yes |-> FALSE]
    /\ day_ids = <<>> /\ day = 0
    /\ ids = <<>> /\ tiles = <<>> /\ retries = 0 /\ failed = <<>>
    /\ slices = <<>> /\ processed_ids = <<>>
    /\ batch_no = 0 /\ batch = <<>>
    /\ solr_deleted = {} /\ cass_deleted = {} /\ error_log = {}
    /\ attempts = <<>>
    /\ zarr_written = FALSE /\ answer = NoAnswer

\* lines 379-401: the next day's ids are gathered with rows(500): the first
\* page of the day's documents, whatever numFound says; tiles = [] and
\* retries = 3. failed is not assigned here
StartDay ==
    /\ pc = "day" /\ day <= Len(day_ids)
    /\ ids' = FirstRows(day_ids[day], SolrRows)
    /\ tiles' = <<>>
    /\ retries' = RetryCeiling
    /\ attempts' = <<>>
    /\ pc' = "fetch"
    /\ UNCHANGED <<args, day_ids, day, failed, slices, processed_ids, batch_no,
                   batch, solr_deleted, cass_deleted, error_log>>
    /\ UNCHANGED <<zarr_written, answer>>
    /\ UNCHANGED <<tileVars, solrVars, fetchVars, connVars, cogVars, daysVars, toolVars>>

\* mutant of FetchAttempt: the failure of a statement is swallowed and the
\* pass is made again for the whole list, without counting it
FetchAttemptRepeated ==
    /\ pc = "fetch" /\ retries > 0
    /\ failed' = <<>>
    /\ \E k \in {NoStatement} \cup (1 .. Len(ids)) :
         LET raised == IF k # NoStatement THEN NotRaised
                       ELSE IF ids # <<>> THEN DecodeError
                       ELSE NotRaised
             stmt == IF k # NoStatement THEN ids[k] ELSE NoStatement
         IN  /\ attempts' = Append(attempts, Attempt("fetch", ids, <<>>, raised, stmt))
             /\ pc' = IF k # NoStatement THEN "fetch"
                      ELSE IF raised = NotRaised THEN "slice" ELSE "aborted"
             /\ retries' = IF k # NoStatement THEN retries ELSE retries - 1
    /\ UNCHANGED <<args, day_ids, day, ids, tiles, slices, processed_ids, batch_no,
                   batch, solr_deleted, cass_deleted, error_log>>
    /\ UNCHANGED <<zarr_written, answer>>
    /\ UNCHANGED <<tileVars, solrVars, fetchVars, connVars, cogVars, daysVars, toolVars>>

\* mutant of FetchAttempt: the failure of a statement is swallowed and the
\* loop is left as if every row had been fetched
FetchAttemptSwallowed ==
    /\ pc = "fetch" /\ retries > 0
    /\ retries' = retries - 1
    /\ failed' = <<>>
    /\ \E k \in {NoStatement} \cup (1 .. Len(ids)) :
         LET raised == IF k # NoStatement THEN NotRaised
                       ELSE IF ids # <<>> THEN DecodeError
                       ELSE NotRaised
             stmt == IF k # NoStatement THEN ids[k] ELSE NoStatement
         IN  /\ attempts' = Append(attempts, Attempt("fetch", ids, <<>>, raised, stmt))
             /\ pc' = IF raised = NotRaised THEN "slice" ELSE "aborted"
    /\ UNCHANGED <<args, day_ids, day, ids, tiles, slices, processed_ids, batch_no,
                   batch, solr_deleted, cass_deleted, error_log>>
    /\ UNCHANGED <<zarr_written, answer>>
    /\ UNCHANGED <<tileVars, solrVars, fetchVars, connVars, cogVars, daysVars, toolVars>>

\* lines 403-437: the pass of the fetch loop. retries -= 1 and failed = []
\* (lines 405-406), then the SELECTs of the day's ids are issued (408-415).
\* k: the position of the first statement that fails, NoStatement when none
\* does. When one fails the driver raises its exception out of the call and
\* out of main. When none fails and there is an id, line 422 hands the first
\* result.one(), a Row, to TileData.FromString, which raises TypeError out
\* of main. With no id the loop body is not entered, none_failed stays True
\* and line 437 leaves the loop. The branch of lines 417-419 and the retry
\* of lines 438-441 need a (False, exception) pair, which this call never
\* returns: no second pass is made.
FetchAttempt ==
    /\ pc = "fetch" /\ retries > 0
    /\ retries' = retries - 1
    /\ failed' = <<>>
    /\ \E k \in {NoStatement} \cup (1 .. Len(ids)) :
         LET raised == IF k # NoStatement THEN DriverError
                       ELSE IF ids # <<>> THEN DecodeError
                       ELSE NotRaised
             stmt == IF k # NoStatement THEN ids[k] ELSE NoStatement
         IN  /\ attempts' = Append(attempts, Attempt("fetch", ids, <<>>, raised, stmt))
             /\ pc' = IF raised = NotRaised THEN "slice" ELSE "aborted"
    /\ UNCHANGED <<args, day_ids, day, ids, tiles, slices, processed_ids, batch_no,
                   batch, solr_deleted, cass_deleted, error_log>>
    /\ UNCHANGED <<zarr_written, answer>>
    /\ UNCHANGED <<tileVars, solrVars, fetchVars, connVars, cogVars, daysVars, toolVars>>

\* lines 443-485: the slice of the day is built from tiles, which no pass
\* has put a tile into, and processed_ids.extend(ids). Line 471 raises
\* IndexError when the tiles have more distinct times than the dataset has
\* variables
BuildSlice ==
    /\ pc = "slice"
    /\ IF /\ Len(UniqueTimes(tiles)) > Len(variable_names)
          /\ UniqueLats(tiles) # <<>> /\ UniqueLons(tiles) # <<>>
          /\ variable_names # <<>>
       THEN /\ pc' = "aborted"
            /\ UNCHANGED <<slices, processed_ids, day, attempts>>
       ELSE /\ slices' = Append(slices, Vals3d(tiles))
            /\ processed_ids' = processed_ids \o ids
            /\ day' = day + 1
            /\ pc' = "day"
            /\ attempts' = <<>>
    /\ UNCHANGED <<args, day_ids, ids, tiles, retries, failed, batch_no,
                   batch, solr_deleted, cass_deleted, error_log>>
    /\ UNCHANGED <<zarr_written, answer>>
    /\ UNCHANGED <<tileVars, solrVars, fetchVars, connVars, cogVars, daysVars, toolVars>>

\* lines 487-546: the slices are written to the zarr store; with --keep the
\* tool returns
WriteZarr ==
    /\ pc = "day" /\ day > Len(day_ids)
    /\ pc' = IF args.keep THEN "done" ELSE IF args.yes THEN "solr_delete" ELSE "confirm"
    /\ batch_no' = 1
    /\ UNCHANGED <<args, day_ids, day, ids, tiles, retries, failed, slices,
                   processed_ids, batch, solr_deleted, cass_deleted, error_log,
                   attempts>>
    /\ zarr_written' = TRUE
    /\ UNCHANGED answer
    /\ UNCHANGED <<tileVars, solrVars, fetchVars, connVars, cogVars, daysVars, toolVars>>

\* mutant of Confirm: the empty answer proceeds to the deletion
ConfirmEmptyProceeds ==
    /\ pc \in {"confirm", "confirm_again"}
    /\ \E typed \in Typed :
         LET do_continue == Lower(typed)
         IN  /\ answer' = do_continue
             /\ pc' = CASE do_continue = "n" -> "done"
                         [] do_continue \in {"", "y"} -> "solr_delete"
                         [] OTHER -> "confirm_again"
    /\ UNCHANGED zarr_written
    /\ UNCHANGED <<args, day_ids, day, ids, tiles, retries, failed, slices,
                   processed_ids, batch_no, batch, solr_deleted, cass_deleted,
                   error_log, attempts>>
    /\ UNCHANGED <<tileVars, solrVars, fetchVars, connVars, cogVars, daysVars, toolVars>>

\* lines 550-560: the confirmation prompt; the answer is lower-cased and any
\* answer but "", "y", "n" asks again
Confirm ==
    /\ pc \in {"confirm", "confirm_again"}
    /\ \E typed \in Typed :
         LET do_continue == Lower(typed)
         IN  /\ answer' = do_continue
             /\ pc' = CASE do_continue \in {"", "n"} -> "done"
                         [] do_continue = "y" -> "solr_delete"
                         [] OTHER -> "confirm_again"
    /\ UNCHANGED zarr_written
    /\ UNCHANGED <<args, day_ids, day, ids, tiles, retries, failed, slices,
                   processed_ids, batch_no, batch, solr_deleted, cass_deleted,
                   error_log, attempts>>
    /\ UNCHANGED <<tileVars, solrVars, fetchVars, connVars, cogVars, daysVars, toolVars>>

\* lines 571-572: the next Solr batch. processed_ids holds UUID objects, so
\* json.dumps({'delete': batch}) raises TypeError out of main before the
\* update is sent: nothing is deleted. No run gets here: line 485 only ever
\* extends processed_ids with the ids of a day that has none; the step is
\* therefore no part of NextConv.
SolrDelete ==
    /\ pc = "solr_delete"
    /\ batch_no <= Len(Batches(processed_ids, SolrBatchSize))
    /\ batch' = Batches(processed_ids, SolrBatchSize)[batch_no]
    /\ pc' = "delete_aborted"
    /\ UNCHANGED <<args, day_ids, day, ids, tiles, retries, failed, slices,
                   processed_ids, batch_no, solr_deleted, cass_deleted, error_log,
                   attempts>>
    /\ UNCHANGED <<zarr_written, answer>>
    /\ UNCHANGED <<tileVars, solrVars, fetchVars, connVars, cogVars, daysVars, toolVars>>

\* lines 582-588: the Solr batches are done
SolrDone ==
    /\ pc = "solr_delete"
    /\ batch_no > Len(Batches(processed_ids, SolrBatchSize))
    /\ batch_no' = 1
    /\ pc' = "cass_batch"
    /\ UNCHANGED <<args, day_ids, day, ids, tiles, retries, failed, slices,
                   processed_ids, batch, solr_deleted, cass_deleted, error_log,
                   attempts>>
    /\ UNCHANGED <<zarr_written, answer>>
    /\ UNCHANGED <<tileVars, solrVars, fetchVars, connVars, cogVars, daysVars, toolVars>>

\* lines 590-591: the next Cassandra batch, retries = 3; line 628 after the last
CassBatch ==
    /\ pc = "cass_batch"
    /\ IF batch_no <= Len(Batches(processed_ids, CassandraBatchSize))
       THEN /\ batch' = Batches(processed_ids, CassandraBatchSize)[batch_no]
            /\ retries' = RetryCeiling
            /\ attempts' = <<>>
            /\ pc' = "cass_attempt"
       ELSE /\ pc' = "done"
            /\ UNCHANGED <<batch, retries, attempts>>
    /\ UNCHANGED <<args, day_ids, day, ids, tiles, failed, slices,
                   processed_ids, batch_no, solr_deleted, cass_deleted, error_log>>
    /\ UNCHANGED <<zarr_written, answer>>
    /\ UNCHANGED <<tileVars, solrVars, fetchVars, connVars, cogVars, daysVars, toolVars>>

\* lines 593-608: the first pass over a Cassandra batch. The arguments are
\* built as UUID(tile_id) from ids that are UUID objects already, which raises
\* AttributeError out of main before a DELETE is sent. No run gets here: a
\* batch exists only when processed_ids is not empty; the step is therefore
\* no part of NextConv.
CassAttempt ==
    /\ pc = "cass_attempt" /\ retries > 0
    /\ retries' = retries - 1
    /\ failed' = <<>>
    /\ pc' = "delete_aborted"
    /\ UNCHANGED <<args, day_ids, day, ids, tiles, slices, processed_ids,
                   batch_no, batch, solr_deleted, cass_deleted, error_log, attempts>>
    /\ UNCHANGED <<zarr_written, answer>>
    /\ UNCHANGED <<tileVars, solrVars, fetchVars, connVars, cogVars, daysVars, toolVars>>

-----------------------------------------------------------------------------
(* CassandraProxy.__init__: concurrent constructors and INIT_LOCK          *)
(* connection.get_cluster raises CQLEngineException while no cluster is    *)
(* registered; connection.setup registers one.                             *)

Procs == 1 .. MaxProcs

\* self.__cass_port when the config has no port option
DefaultPort == 9042

\* the options of the config that decide what __init__ and __open do:
\* dc_policy, port (0: the option is missing) and whether both username and
\* password are set
Configs ==
    [dc_policy : {"DCAwareRoundRobinPolicy", "WhiteListRoundRobinPolicy", "other"},
     port : {0, 9142},
     auth : BOOLEAN]

\* connection.cluster before any setup
NoCluster == <<>>

\* the try / except NoOptionError of lines 164-167
CassPort(cfg) == IF cfg.port = 0 THEN DefaultPort ELSE cfg.port

InitConnect ==
    /\ config \in [Procs -> Configs]
    /\ cpc = [p \in Procs |-> "new"]
    /\ lock = 0
    /\ cluster = NoCluster
    /\ setup_calls = 0

IdleConnect ==
    /\ config = <<>>
    /\ cpc = <<>>
    /\ lock = 0
    /\ cluster = NoCluster
    /\ setup_calls = 0

\* lines 155-167: the constructor reads its config
ReadConfig(p) ==
    /\ cpc[p] = "new"
    /\ cpc' = [cpc EXCEPT ![p] = "with"]
    /\ UNCHANGED <<config, lock, cluster, setup_calls>>
    /\ UNCHANGED <<tileVars, solrVars, fetchVars, convVars, cogVars, daysVars, toolVars>>

\* mutant of Acquire: the constructor does not take INIT_LOCK
AcquireUnguarded(p) ==
    /\ cpc[p] = "with"
    /\ lock' = p
    /\ cpc' = [cpc EXCEPT ![p] = "get_cluster"]
    /\ UNCHANGED <<config, cluster, setup_calls>>
    /\ UNCHANGED <<tileVars, solrVars, fetchVars, convVars, cogVars, daysVars, toolVars>>

\* with INIT_LOCK: blocks until the lock is free, then holds it
Acquire(p) ==
    /\ cpc[p] = "with"
    /\ lock = 0
    /\ lock' = p
    /\ cpc' = [cpc EXCEPT ![p] = "get_cluster"]
    /\ UNCHANGED <<config, cluster, setup_calls>>
    /\ UNCHANGED <<tileVars, solrVars, fetchVars, convVars, cogVars, daysVars, toolVars>>

\* try: connection.get_cluster()  except CQLEngineException: self.__open()
GetCluster(p) ==
    /\ cpc[p] = "get_cluster"
    /\ cpc' = [cpc EXCEPT ![p] = IF cluster = NoCluster THEN "open" ELSE "exit"]
    /\ UNCHANGED <<config, lock, cluster, setup_calls>>
    /\ UNCHANGED <<tileVars, solrVars, fetchVars, convVars, cogVars, daysVars, toolVars>>

\* self.__open(): a dc_policy that is neither of the two names leaves the
\* local dc_policy unbound and TokenAwarePolicy(dc_policy) raises
\* UnboundLocalError; otherwise connection.setup is called
Open(p) ==
    /\ cpc[p] = "open"
    /\ IF config[p].dc_policy \in {"DCAwareRoundRobinPolicy", "WhiteListRoundRobinPolicy"}
       THEN /\ setup_calls' = setup_calls + 1
            /\ cluster' = <<[port |-> CassPort(config[p]),
                             auth |-> config[p].auth,
                             dc_policy |-> config[p].dc_policy]>>
            /\ cpc' = [cpc EXCEPT ![p] = "exit"]
       ELSE /\ cpc' = [cpc EXCEPT ![p] = "raise"]
            /\ UNCHANGED <<cluster, setup_calls>>
    /\ UNCHANGED <<config, lock>>
    /\ UNCHANGED <<tileVars, solrVars, fetchVars, convVars, cogVars, daysVars, toolVars>>

\* leaving the with block releases INIT_LOCK; the constructor then returns,
\* or the exception of __open propagates to its caller
Release(p) ==
    /\ cpc[p] \in {"exit", "raise"}
    /\ lock' = 0
    /\ cpc' = [cpc EXCEPT ![p] = IF cpc[p] = "exit" THEN "returned"
                                  ELSE "UnboundLocalError"]
    /\ UNCHANGED <<config, cluster, setup_calls>>
    /\ UNCHANGED <<tileVars, solrVars, fetchVars, convVars, cogVars, daysVars, toolVars>>

-----------------------------------------------------------------------------
(* CoGBackend (backends/cog/backend.py): the tile-service methods of the   *)
(* array-store backend, one backend instance per dataset; a behaviour is    *)
(* one call on a freshly constructed backend (no method writes self)       *)

\* what a backend method returned (status "ok") or the exception it raised
Ret(value) == [status |-> "ok", value |-> value]

Exc(name) == [status |-> name, value |-> <<>>]

NoCall == [op |-> "none"]

\* (min_lat, max_lat, min_lon, max_lon) of a request or of a tile
Boxes ==
    {b \in [min_lat : Coords, max_lat : Coords, min_lon : Coords, max_lon : Coords] :
        b.min_lat <= b.max_lat /\ b.min_lon <= b.max_lon}

\* the six request bounds of test_bounds
BoundsArgs == [box : Boxes, start_time : Times, end_time : Times]

\* strings handed to find_tile_by_id / find_tiles_by_id
TileIdArgs == {"not-a-tile-id", "dsA/10,10,20,20/0,1"}

DaysOfYear == {29, 30, 31, 32}

\* self.__ds, the store opened by the constructor: the dataset it holds,
\* the extent of its grid and the days of year it has data for
Stores == [name : Datasets,
           box : {[min_lat |-> 10, max_lat |-> 20, min_lon |-> 10, max_lon |-> 20],
                  [min_lat |-> 10, max_lat |-> 10, min_lon |-> 10, max_lon |-> 10]},
           days : SUBSET {30, 32}]

\* CoGBackend.__to_url(dataset, **kwargs)
ToUrl(dataset, kwargs) == Exc("NotImplementedError")

\* CoGBackend.__fetch_data_for_tile(tile)
FetchDataForTile(t) == Exc("NotImplementedError")

InitCoG ==
    /\ ds \in Stores
    /\ call = NoCall
    /\ cres = Exc("none")

IdleCoG ==
    /\ ds = [name |-> "dsA"]
    /\ call = NoCall
    /\ cres = Exc("none")

\* find_tile_by_id(tile_id)
FindTileById ==
    /\ call = NoCall
    /\ \E tile_id \in TileIdArgs :
          /\ call' = [op |-> "find_tile_by_id", tile_ids |-> <<tile_id>>]
          /\ cres' = Ret(<<tile_id>>)
    /\ UNCHANGED ds
    /\ UNCHANGED <<tileVars, solrVars, fetchVars, convVars, connVars, daysVars, toolVars>>

\* find_tiles_by_id(tile_ids)
FindTilesById ==
    /\ call = NoCall
    /\ \E n \in 0 .. MaxReq : \E tile_ids \in [1 .. n -> TileIdArgs] :
          /\ call' = [op |-> "find_tiles_by_id", tile_ids |-> tile_ids]
          /\ cres' = Ret(tile_ids)
    /\ UNCHANGED ds
    /\ UNCHANGED <<tileVars, solrVars, fetchVars, convVars, connVars, daysVars, toolVars>>

\* find_tile_by_polygon_and_most_recent_day_of_year(bounding_polygon, ds, day_of_year)
FindTileByPolygonAndMostRecentDayOfYear ==
    /\ call = NoCall
    /\ \E b \in Boxes, dataset \in Datasets, d \in DaysOfYear :
          call' = [op |-> "find_tile_by_polygon_and_most_recent_day_of_year",
                   box |-> b, dataset |-> dataset, day_of_year |-> d]
    /\ cres' = Exc("NotImplementedError")
    /\ UNCHANGED ds
    /\ UNCHANGED <<tileVars, solrVars, fetchVars, convVars, connVars, daysVars, toolVars>>

\* find_tiles_by_metadata(metadata, ds, start_time, end_time)
FindTilesByMetadata ==
    /\ call = NoCall
    /\ \E metadata \in {<<>>, <<"granule_s:granule_name">>}, dataset \in Datasets,
          start_time \in Times, end_time \in Times :
          call' = [op |-> "find_tiles_by_metadata", metadata |-> metadata,
                   dataset |-> dataset, start_time |-> start_time,
                   end_time |-> end_time]
    /\ cres' = Exc("NotImplementedError")
    /\ UNCHANGED ds
    /\ UNCHANGED <<tileVars, solrVars, fetchVars, convVars, connVars, daysVars, toolVars>>

\* mutant of FindTilesByExactBounds: the stub returns an empty list
FindTilesByExactBoundsEmpty ==
    /\ call = NoCall
    /\ \E b \in BoundsArgs, dataset \in Datasets :
          call' = [op |-> "find_tiles_by_exact_bounds", bounds |-> b,
                   dataset |-> dataset]
    /\ cres' = Ret(<<>>)
    /\ UNCHANGED ds
    /\ UNCHANGED <<tileVars, solrVars, fetchVars, convVars, connVars, daysVars, toolVars>>

\* find_tiles_by_exact_bounds(bounds, ds, start_time, end_time)
FindTilesByExactBounds ==
    /\ call = NoCall
    /\ \E b \in BoundsArgs, dataset \in Datasets :
          call' = [op |-> "find_tiles_by_exact_bounds", bounds |-> b,
                   dataset |-> dataset]
    /\ cres' = Exc("NotImplementedError")
    /\ UNCHANGED ds
    /\ UNCHANGED <<tileVars, solrVars, fetchVars, convVars, connVars, daysVars, toolVars>>

\* find_all_boundary_tiles_at_time(min_lat, max_lat, min_lon, max_lon, dataset, time)
FindAllBoundaryTilesAtTime ==
    /\ call = NoCall
    /\ \E b \in Boxes, dataset \in Datasets, time \in Times :
          call' = [op |-> "find_all_boundary_tiles_at_time", box |-> b,
                   dataset |-> dataset, time |-> time]
    /\ cres' = Exc("NotImplementedError")
    /\ UNCHANGED ds
    /\ UNCHANGED <<tileVars, solrVars, fetchVars, convVars, connVars, daysVars, toolVars>>

\* the tile id of the region is derived: CoGBackend.__to_url(dataset, **bounds)
DeriveTileId ==
    /\ call = NoCall
    /\ \E b \in BoundsArgs :
          /\ call' = [op |-> "__to_url", dataset |-> ds.name, bounds |-> b]
          /\ cres' = ToUrl(ds.name, b)
    /\ UNCHANGED ds
    /\ UNCHANGED <<tileVars, solrVars, fetchVars, convVars, connVars, daysVars, toolVars>>

\* fetch_data_for_tiles(*tiles): each tile carries the id made of the
\* bounds of the region it stands for
FetchDataForTiles ==
    /\ call = NoCall
    /\ \E n \in 0 .. MaxFetch : \E tile_list \in [1 .. n -> BoundsArgs] :
          /\ call' = [op |-> "fetch_data_for_tiles", tiles |-> tile_list]
          /\ cres' = IF \E k \in 1 .. n : FetchDataForTile(tile_list[k]).status # "ok"
                     THEN FetchDataForTile(tile_list[1])
                     ELSE Ret([k \in 1 .. n |-> FetchDataForTile(tile_list[k]).value])
    /\ UNCHANGED ds
    /\ UNCHANGED <<tileVars, solrVars, fetchVars, convVars, connVars, daysVars, toolVars>>

-----------------------------------------------------------------------------
(* SolrProxy.find_days_in_range_asc (backends/cog/SolrProxy.py)            *)
(* A date is represented by its instant in seconds since the epoch, which *)
(* is what strftime / strptime with SOLR_FORMAT carry back and forth.       *)

\* a document without the field tile_min_time_dt
NoField == 0 - 1

\* a tile document: dataset_s, min_time_dt, max_time_dt, tile_min_time_dt and
\* the point of its geo field.  A tile covers one or two consecutive
\* instants; tile_min_time_dt, when the document has it, is the tile's first
\* instant; the points lie on the diagonal of the grid.
DayDocs ==
    {d \in [dataset : Datasets, min_time : Times, max_time : Times,
            tile_min_time : Times \cup {NoField}, lat : Coords, lon : Coords] :
        /\ d.max_time - d.min_time \in {0, 1}
        /\ d.tile_min_time \in {d.min_time, NoField}
        /\ d.lat = d.lon}

\* a total order on the documents, used to list a collection once
DocKey(d) ==
    ((((IF d.dataset = "dsA" THEN 0 ELSE 1) * (MaxTime + 1) + d.min_time) * 2
        + (d.max_time - d.min_time)) * 2
        + (IF d.tile_min_time = NoField THEN 0 ELSE 1)) * 2
        + (IF d.lat = 10 THEN 0 ELSE 1)

\* the query boxes: the whole grid, or one of its two diagonal cells
QueryBoxes ==
    {[min_lat |-> 10, max_lat |-> 20, min_lon |-> 10, max_lon |-> 20],
     [min_lat |-> 10, max_lat |-> 10, min_lon |-> 10, max_lon |-> 10],
     [min_lat |-> 20, max_lat |-> 20, min_lon |-> 10, max_lon |-> 20]}

\* fq  geo:[min_lat,min_lon TO max_lat,max_lon]
GeoClause(d, b) ==
    /\ InRange(d.lat, b.min_lat, b.max_lat)
    /\ InRange(d.lon, b.min_lon, b.max_lon)

\* fq  {!frange l=0 u=0}ms(min_time_dt,max_time_dt): the difference of the
\* two dates in milliseconds lies in [0, 0]
FRangeClause(d) == InRange((d.min_time - d.max_time) * 1000, 0, 0)

\* fq  tile_min_time_dt:[search_start_s TO search_end_s]
TileMinTimeClause(d, start_time, end_time) ==
    /\ d.tile_min_time # NoField
    /\ InRange(d.tile_min_time, start_time, end_time)

\* response.facets['facet_fields']['min_time_dt'] with facet.mincount = 1 and
\* facet.limit = -1: value, count, value, count, ... for every value of
\* min_time_dt among the matched documents, in index order
FacetField(matched) ==
    LET values == SortedAsc({d.min_time : d \in matched})
    IN  [i \in 1 .. 2 * Len(values) |->
            IF i % 2 = 1 THEN values[(i + 1) \div 2]
            ELSE Cardinality({d \in matched : d.min_time = values[i \div 2]})]

\* mutant of EveryOther: the slice [::2] is missing, counts are kept
EveryOtherAll(seq) == seq

\* seq[::2]
EveryOther(seq) == [i \in 1 .. (Len(seq) + 1) \div 2 |-> seq[2 * i - 1]]

InitDays ==
    /\ \E n \in 0 .. MaxDocs : \E f \in [1 .. n -> DayDocs] :
          /\ \A k \in 1 .. n - 1 : DocKey(f[k]) < DocKey(f[k + 1])
          /\ dindex = {f[k] : k \in 1 .. n}
    /\ dquery \in {q \in [ds : {"dsA"}, box : QueryBoxes,
                          start_time : Times, end_time : Times] :
                      q.start_time <= q.end_time}
    /\ days = <<>>
    /\ dstate = "pending"

IdleDays ==
    /\ dindex = {}
    /\ dquery = [ds |-> "dsA"]
    /\ days = <<>>
    /\ dstate = "idle"

\* SolrProxy.find_days_in_range_asc(min_lat, max_lat, min_lon, max_lon, ds,
\*                                  start_time, end_time)
FindDaysInRangeAsc ==
    /\ dstate = "pending"
    /\ LET matched == {d \in dindex :
                          /\ DatasetClause(d, dquery.ds)
                          /\ GeoClause(d, dquery.box)
                          /\ FRangeClause(d)
                          /\ TileMinTimeClause(d, dquery.start_time, dquery.end_time)}
           dates == EveryOther(FacetField(matched))
       IN  days' = SortedAsc({dates[i] : i \in 1 .. Len(dates)})
    /\ dstate' = "done"
    /\ UNCHANGED <<dindex, dquery>>
    /\ UNCHANGED <<tileVars, solrVars, fetchVars, convVars, connVars, cogVars, toolVars>>

-----------------------------------------------------------------------------
(* proto-to-zarr: parse_args and _exists, the check of the destination     *)
(* The destination is a URL; the store is written to <dest>/<dataset>.     *)

\* the destinations of the model
Dests == {"/out", "file:///out", "s3://b/out", "s3://b/out/", "s3://b", "http://h/out"}

\* urlparse(args.dest): scheme, netloc and path of those destinations
UrlParse(dest) ==
    CASE dest = "/out"         -> [scheme |-> "",     netloc |-> "",  path |-> "/out"]
      [] dest = "file:///out"  -> [scheme |-> "file", netloc |-> "",  path |-> "/out"]
      [] dest = "s3://b/out"   -> [scheme |-> "s3",   netloc |-> "b", path |-> "/out"]
      [] dest = "s3://b/out/"  -> [scheme |-> "s3",   netloc |-> "b", path |-> "/out/"]
      [] dest = "s3://b"       -> [scheme |-> "s3",   netloc |-> "b", path |-> ""]
      [] dest = "http://h/out" -> [scheme |-> "http", netloc |-> "h", path |-> "/out"]

\* the local paths that may exist: the directory /out and, in the working
\* directory, a relative path spelled like the file URL
LocalPaths == {"/out", "file:///out"}

\* the objects that may exist in bucket b: a zarr group at the destination,
\* the zarr group of the dataset below it, and an object that is no group
Objects == {"out/.zgroup", "out/ds/.zgroup", "out/data.nc"}

\* how the command line gives the AWS credentials
Credentials == {"none", "key", "key_secret", "file"}

\* the outcomes of parse_args
Unsupported == "ValueError: Unsupported output store type"
AlreadyExists == "ValueError: Something already exists"

\* lines 262-269: the store type of a scheme
StoreType(scheme) ==
    CASE scheme \in {"", "file"} -> "local"
      [] scheme = "s3" -> "s3"
      [] OTHER -> Unsupported

\* lines 271-288: the credentials must be given by file or by key and secret
CredentialsOk(aws) == aws \in {"file", "key_secret"}

\* lines 62-71: the key of the object that is looked up
ZgroupKey(path) ==
    CASE path = "/out"  -> "out/.zgroup"
      [] path = "/out/" -> "out/.zgroup"
      [] path = ""      -> "IndexError"

\* _exists(path, store_type, aws_params): "True", "False", or the exception raised.
\* local: os.path.exists of the argument as given; s3: head_object of the
\* .zgroup key, NoSuchKey and 404 mean "False", another error is raised again
Exists(path, store_type, files) ==
    IF store_type = "local"
    THEN IF path \in files.local THEN "True" ELSE "False"
    ELSE LET key == ZgroupKey(UrlParse(path).path)
         IN  IF key = "IndexError" THEN "IndexError"
             ELSE IF files.head = "403" THEN "ClientError"
             ELSE IF key \in files.s3 THEN "True" ELSE "False"

InitArgs ==
    /\ argv \in [dest : Dests, overwrite : BOOLEAN, aws : Credentials]
    /\ fsys \in [local : SUBSET LocalPaths, s3 : SUBSET Objects, head : {"ok", "403"}]
    /\ pstate = "start"
    /\ started = FALSE

IdleArgs ==
    /\ argv = [dest |-> "/out", overwrite |-> FALSE, aws |-> "none"]
    /\ fsys = [local |-> {}, s3 |-> {}, head |-> "ok"]
    /\ pstate = "idle"
    /\ started = FALSE

\* parse_args, lines 258-293
ParseArgs ==
    /\ pstate = "start"
    /\ LET store_type == StoreType(UrlParse(argv.dest).scheme)
       IN  pstate' =
             IF store_type = Unsupported THEN Unsupported
             ELSE IF store_type = "s3" /\ ~CredentialsOk(argv.aws) THEN "AssertionError"
             ELSE IF argv.overwrite THEN "returned"
             ELSE LET found == Exists(argv.dest, store_type, fsys)
                  IN  CASE found = "True" -> AlreadyExists
                        [] found = "False" -> "returned"
                        [] OTHER -> found
    /\ UNCHANGED <<argv, fsys, started>>
    /\ UNCHANGED <<tileVars, solrVars, fetchVars, convVars, connVars, cogVars, daysVars>>
    /\ UNCHANGED <<sliceVars, createVars, tileFetchVars>>

\* line 631 and lines 296-318: main runs on what parse_args returned and
\* connects to Solr and Cassandra
Main ==
    /\ pstate = "returned"
    /\ ~started
    /\ started' = TRUE
    /\ UNCHANGED <<argv, fsys, pstate>>
    /\ UNCHANGED <<tileVars, solrVars, fetchVars, convVars, connVars, cogVars, daysVars>>
    /\ UNCHANGED <<sliceVars, createVars, tileFetchVars>>

-----------------------------------------------------------------------------
(* create-collection.py: instances of the collection-init script           *)
(* Each instance starts a ZooKeeper client, takes the lock                 *)
(* /collection-creator, polls the cluster status, creates the collection   *)
(* nexustiles when it is absent and adds the schema fields.                 *)

Insts == 1 .. MaxInst

\* status before the first poll
NoStatus == [kind |-> "none", live_nodes |-> 0, listed |-> FALSE]

\* get_cluster_status(), lines 40-44: False when Solr cannot be reached or
\* does not answer JSON
Unreachable == [kind |-> "False", live_nodes |-> 0, listed |-> FALSE]

\* an answer that is JSON but has no 'cluster' entry
NoClusterEntry == [kind |-> "no_cluster", live_nodes |-> 0, listed |-> FALSE]

\* the numbers of live nodes a status reports: one short of MINIMUM_NODES
\* and just enough
NodeCounts == {MINIMUM_NODES - 1, MINIMUM_NODES}

\* the answers a poll can get while the collection exists or not
Statuses(exists) ==
    {Unreachable, NoClusterEntry} \cup
    {[kind |-> "status", live_nodes |-> n, listed |-> exists] : n \in NodeCounts}

\* line 261: collection_exists, set from the last status
CollectionExists(status) == status.kind = "status" /\ status.listed

\* lines 251 and 268: a poll that counts as an attempt
Unsuccessful(status) ==
    \/ status.kind = "False"
    \/ status.kind = "status" /\ ~status.listed /\ status.live_nodes < MINIMUM_NODES

\* the answers to the CREATE request
CreateResponses == {"ok", "failure", "ConnectionError"}

InitCreate ==
    /\ ipc = [i \in Insts |-> "start"]
    /\ iattempts = [i \in Insts |-> 0]
    /\ istatus = [i \in Insts |-> NoStatus]
    /\ ioutcome = [i \in Insts |-> "running"]
    /\ zk = [i \in Insts |-> "new"]
    /\ zlock = 0
    /\ nexustiles \in BOOLEAN
    /\ creates = <<>>
    /\ schema = {}

IdleCreate ==
    /\ ipc = <<>> /\ iattempts = <<>> /\ istatus = <<>> /\ ioutcome = <<>>
    /\ zk = <<>>
    /\ zlock = 0
    /\ nexustiles = FALSE
    /\ creates = <<>>
    /\ schema = {}

\* lines 236-241: the client is started
ZkStart(i) ==
    /\ ipc[i] = "start"
    /\ zk' = [zk EXCEPT ![i] = "started"]
    /\ ipc' = [ipc EXCEPT ![i] = "acquire"]
    /\ UNCHANGED <<iattempts, istatus, ioutcome, zlock, nexustiles, creates, schema>>
    /\ UNCHANGED <<tileVars, solrVars, fetchVars, convVars, connVars, cogVars, daysVars>>
    /\ UNCHANGED <<parseVars, sliceVars, tileFetchVars>>

\* mutant of AcquireLock: the section is entered while the lock is held
AcquireLockUnguarded(i) ==
    /\ ipc[i] = "acquire"
    /\ zlock' = i
    /\ iattempts' = [iattempts EXCEPT ![i] = 0]
    /\ istatus' = [istatus EXCEPT ![i] = NoStatus]
    /\ ipc' = [ipc EXCEPT ![i] = "poll"]
    /\ UNCHANGED <<ioutcome, zk, nexustiles, creates, schema>>
    /\ UNCHANGED <<tileVars, solrVars, fetchVars, convVars, connVars, cogVars, daysVars>>
    /\ UNCHANGED <<parseVars, sliceVars, tileFetchVars>>

\* lines 243-249: with lock; attempts = 0, status = None and the loop test
AcquireLock(i) ==
    /\ ipc[i] = "acquire"
    /\ zlock = 0
    /\ zlock' = i
    /\ iattempts' = [iattempts EXCEPT ![i] = 0]
    /\ istatus' = [istatus EXCEPT ![i] = NoStatus]
    /\ ipc' = [ipc EXCEPT ![i] = IF 0 <= MAX_RETRIES THEN "poll" ELSE "after_loop"]
    /\ UNCHANGED <<ioutcome, zk, nexustiles, creates, schema>>
    /\ UNCHANGED <<tileVars, solrVars, fetchVars, convVars, connVars, cogVars, daysVars>>
    /\ UNCHANGED <<parseVars, sliceVars, tileFetchVars>>

\* mutant of Poll: the loop is left on any answer with a cluster entry
PollNoNodeCheck(i) ==
    /\ ipc[i] = "poll"
    /\ \E status \in Statuses(nexustiles) :
         /\ istatus' = [istatus EXCEPT ![i] = status]
         /\ CASE status.kind = "False" ->
                   /\ iattempts' = [iattempts EXCEPT ![i] = @ + 1]
                   /\ ipc' = [ipc EXCEPT ![i] = "sleep"]
                   /\ UNCHANGED ioutcome
              [] status.kind = "no_cluster" ->
                   /\ ioutcome' = [ioutcome EXCEPT ![i] = "KeyError"]
                   /\ ipc' = [ipc EXCEPT ![i] = "exit_with"]
                   /\ UNCHANGED iattempts
              [] OTHER ->
                   /\ ipc' = [ipc EXCEPT ![i] = "after_loop"]
                   /\ UNCHANGED <<iattempts, ioutcome>>
    /\ UNCHANGED <<zk, zlock, nexustiles, creates, schema>>
    /\ UNCHANGED <<tileVars, solrVars, fetchVars, convVars, connVars, cogVars, daysVars>>
    /\ UNCHANGED <<parseVars, sliceVars, tileFetchVars>>

\* mutant of Poll: an unsuccessful poll is not counted
PollNoCount(i) ==
    /\ ipc[i] = "poll"
    /\ \E status \in Statuses(nexustiles) :
         /\ istatus' = [istatus EXCEPT ![i] = status]
         /\ CASE status.kind = "no_cluster" ->
                   /\ ioutcome' = [ioutcome EXCEPT ![i] = "KeyError"]
                   /\ ipc' = [ipc EXCEPT ![i] = "exit_with"]
              [] Unsuccessful(status) ->
                   /\ ipc' = [ipc EXCEPT ![i] = "sleep"]
                   /\ UNCHANGED ioutcome
              [] OTHER ->
                   /\ ipc' = [ipc EXCEPT ![i] = "after_loop"]
                   /\ UNCHANGED ioutcome
    /\ UNCHANGED <<iattempts, zk, zlock, nexustiles, creates, schema>>
    /\ UNCHANGED <<tileVars, solrVars, fetchVars, convVars, connVars, cogVars, daysVars>>
    /\ UNCHANGED <<parseVars, sliceVars, tileFetchVars>>

\* lines 250-277: one pass of the wait loop, up to its break or its sleep.
\* An unsuccessful poll adds one to attempts and goes to time.sleep(1)
\* (lines 255 and 272); an answer that lists nexustiles or reports enough
\* live nodes leaves the loop; status['cluster'] raises KeyError on an
\* answer without that entry.
Poll(i) ==
    /\ ipc[i] = "poll"
    /\ \E status \in Statuses(nexustiles) :
         /\ istatus' = [istatus EXCEPT ![i] = status]
         /\ CASE status.kind = "no_cluster" ->
                   /\ ioutcome' = [ioutcome EXCEPT ![i] = "KeyError"]
                   /\ ipc' = [ipc EXCEPT ![i] = "exit_with"]
                   /\ UNCHANGED iattempts
              [] Unsuccessful(status) ->
                   /\ iattempts' = [iattempts EXCEPT ![i] = @ + 1]
                   /\ ipc' = [ipc EXCEPT ![i] = "sleep"]
                   /\ UNCHANGED ioutcome
              [] OTHER ->
                   /\ ipc' = [ipc EXCEPT ![i] = "after_loop"]
                   /\ UNCHANGED <<iattempts, ioutcome>>
    /\ UNCHANGED <<zk, zlock, nexustiles, creates, schema>>
    /\ UNCHANGED <<tileVars, solrVars, fetchVars, convVars, connVars, cogVars, daysVars>>
    /\ UNCHANGED <<parseVars, sliceVars, tileFetchVars>>

\* lines 255-256 and 272-273, then line 249: the sleep is over, continue,
\* and the loop test
PollSleep(i) ==
    /\ ipc[i] = "sleep"
    /\ ipc' = [ipc EXCEPT ![i] = IF iattempts[i] <= MAX_RETRIES THEN "poll"
                                 ELSE "after_loop"]
    /\ UNCHANGED <<iattempts, istatus, ioutcome, zk, zlock, nexustiles, creates, schema>>
    /\ UNCHANGED <<tileVars, solrVars, fetchVars, convVars, connVars, cogVars, daysVars>>
    /\ UNCHANGED <<parseVars, sliceVars, tileFetchVars>>

\* lines 279-284: RuntimeError when the retries are used up; otherwise the
\* collection is created unless it exists
AfterLoop(i) ==
    /\ ipc[i] = "after_loop"
    /\ IF iattempts[i] > MAX_RETRIES
       THEN /\ ioutcome' = [ioutcome EXCEPT ![i] = "RuntimeError: retries"]
            /\ ipc' = [ipc EXCEPT ![i] = "exit_with"]
       ELSE IF ~CollectionExists(istatus[i])
       THEN /\ ipc' = [ipc EXCEPT ![i] = "create"]
            /\ UNCHANGED ioutcome
       ELSE /\ ioutcome' = [ioutcome EXCEPT ![i] = "ok"]
            /\ ipc' = [ipc EXCEPT ![i] = "exit_with"]
    /\ UNCHANGED <<iattempts, istatus, zk, zlock, nexustiles, creates, schema>>
    /\ UNCHANGED <<tileVars, solrVars, fetchVars, convVars, connVars, cogVars, daysVars>>
    /\ UNCHANGED <<parseVars, sliceVars, tileFetchVars>>

\* lines 285-295: the CREATE request and its response
Create(i) ==
    /\ ipc[i] = "create"
    /\ \E response \in CreateResponses :
         /\ creates' = Append(creates, [inst |-> i, status |-> istatus[i],
                                        existed |-> nexustiles,
                                        response |-> response])
         /\ CASE response = "ok" ->
                   /\ nexustiles' = TRUE
                   /\ ipc' = [ipc EXCEPT ![i] = "schema"]
                   /\ UNCHANGED ioutcome
              [] response = "failure" ->
                   /\ ioutcome' = [ioutcome EXCEPT ![i] = "RuntimeError: create"]
                   /\ ipc' = [ipc EXCEPT ![i] = "exit_with"]
                   /\ UNCHANGED nexustiles
              [] OTHER ->
                   /\ ioutcome' = [ioutcome EXCEPT ![i] = "ConnectionError"]
                   /\ ipc' = [ipc EXCEPT ![i] = "exit_with"]
                   /\ UNCHANGED nexustiles
    /\ UNCHANGED <<iattempts, istatus, zk, zlock, schema>>
    /\ UNCHANGED <<tileVars, solrVars, fetchVars, convVars, connVars, cogVars, daysVars>>
    /\ UNCHANGED <<parseVars, sliceVars, tileFetchVars>>

\* lines 297-340: the field type, the fields and the dynamic field are added
AddSchema(i) ==
    /\ ipc[i] = "schema"
    /\ schema' = schema \cup {i}
    /\ ioutcome' = [ioutcome EXCEPT ![i] = "ok"]
    /\ ipc' = [ipc EXCEPT ![i] = "exit_with"]
    /\ UNCHANGED <<iattempts, istatus, zk, zlock, nexustiles, creates>>
    /\ UNCHANGED <<tileVars, solrVars, fetchVars, convVars, connVars, cogVars, daysVars>>
    /\ UNCHANGED <<parseVars, sliceVars, tileFetchVars>>

\* line 243: the with block is left, by its end or by an exception, and the
\* lock is released
ReleaseLock(i) ==
    /\ ipc[i] = "exit_with"
    /\ zlock' = 0
    /\ ipc' = [ipc EXCEPT ![i] = "finally"]
    /\ UNCHANGED <<iattempts, istatus, ioutcome, zk, nexustiles, creates, schema>>
    /\ UNCHANGED <<tileVars, solrVars, fetchVars, convVars, connVars, cogVars, daysVars>>
    /\ UNCHANGED <<parseVars, sliceVars, tileFetchVars>>

\* lines 341-343: finally: zk.stop() and zk.close()
Finally(i) ==
    /\ ipc[i] = "finally"
    /\ zk' = [zk EXCEPT ![i] = "closed"]
    /\ ipc' = [ipc EXCEPT ![i] = "done"]
    /\ UNCHANGED <<iattempts, istatus, ioutcome, zlock, nexustiles, creates, schema>>
    /\ UNCHANGED <<tileVars, solrVars, fetchVars, convVars, connVars, cogVars, daysVars>>
    /\ UNCHANGED <<parseVars, sliceVars, tileFetchVars>>

\* the steps of instance i
InstStep(i) ==
    \/ ZkStart(i) \/ AcquireLock(i) \/ Poll(i) \/ PollSleep(i) \/ AfterLoop(i)
    \/ Create(i)
    \/ AddSchema(i) \/ ReleaseLock(i) \/ Finally(i)

-----------------------------------------------------------------------------
(* TileFetch.parse_args: the tileIds argument                               *)
(* The argument is a text made of commas and of chunks of other text: two  *)
(* chunks are the texts of well-formed UUIDs, one is text that is no UUID. *)

Comma == ","

\* chunks that uuid.UUID accepts when they stand alone
UuidTexts == {"11111111-1111-1111-1111-111111111111",
              "22222222222222222222222222222222"}

\* a chunk that uuid.UUID rejects
NotUuidText == "abc"

Chunks == {Comma, NotUuidText} \cup UuidTexts

\* the arguments of the model
RECURSIVE Texts(_)
Texts(n) ==
    IF n = 0 THEN {<<>>}
    ELSE LET shorter == Texts(n - 1)
         IN  shorter \cup {Append(t, c) : t \in {u \in shorter : Len(u) = n - 1},
                                           c \in Chunks}

\* str.split(','): the texts between the commas, empty ones included
RECURSIVE Split(_)
Split(text) ==
    IF \A k \in 1 .. Len(text) : text[k] # Comma
    THEN <<text>>
    ELSE LET k == CHOOSE j \in 1 .. Len(text) :
                      /\ text[j] = Comma
                      /\ \A h \in 1 .. j - 1 : text[h] # Comma
         IN  <<SubSeq(text, 1, k - 1)>> \o Split(SubSeq(text, k + 1, Len(text)))

\* lines 62-67: is_uuid, uuid.UUID(s) does not raise ValueError. Text joined
\* from several chunks is too long or holds other characters
IsUuid(entry) == Len(entry) = 1 /\ entry[1] \in UuidTexts

\* mutant of Filter: no entry is dropped
FilterAll(entries) == entries

\* line 69: the entries that pass, in order
RECURSIVE Filter(_)
Filter(entries) ==
    IF entries = <<>> THEN <<>>
    ELSE (IF IsUuid(Head(entries)) THEN <<Head(entries)>> ELSE <<>>)
         \o Filter(Tail(entries))

InitTileFetch ==
    /\ tileIds \in Texts(MaxChunks)
    /\ kept_ids = <<>>
    /\ tfstate = "pending"

IdleTileFetch ==
    /\ tileIds = <<>>
    /\ kept_ids = <<>>
    /\ tfstate = "idle"

\* TileFetch.parse_args, lines 59-77
TileFetchParseArgs ==
    /\ tfstate = "pending"
    /\ LET provided_tile_ids == Split(tileIds)
           kept == Filter(provided_tile_ids)
       IN  IF Len(kept) = 0
           THEN /\ tfstate' = "NexusProcessingException 400"
                /\ UNCHANGED kept_ids
           ELSE /\ tfstate' = "returned"
                /\ kept_ids' = kept
    /\ UNCHANGED tileIds
    /\ UNCHANGED <<tileVars, solrVars, fetchVars, convVars, connVars, cogVars, daysVars>>
    /\ UNCHANGED <<parseVars, sliceVars, createVars>>

\* the tools' variables while another part of the code runs
IdleTools == IdleArgs /\ IdleCreate /\ IdleTileFetch

-----------------------------------------------------------------------------
(* Specifications *)

\* the parts of the state a specification does not use
IdleRest == IdleConnect /\ IdleCoG /\ IdleDays /\ IdleTools

Init == InitTile /\ IdleSolr /\ IdleFetch /\ IdleConvert /\ IdleRest

Next == Reconstruct /\ UNCHANGED <<solrVars, fetchVars, convVars, connVars, cogVars, daysVars, toolVars>>

\* reconstruction of one stored tile
Spec == Init /\ [][Next]_vars

InitQuery == IdleTile /\ InitSolr /\ IdleFetch /\ IdleConvert /\ IdleRest

NextQuery ==
    \/ FindTiffsInDateRange
    \/ DateRangeForDataset

\* one query against the Solr tile index
SpecSolr == InitQuery /\ [][NextQuery]_vars

InitFetchTiles == IdleTile /\ IdleSolr /\ InitFetch /\ IdleConvert /\ IdleRest

NextFetchTiles ==
    FetchNexusTiles /\ UNCHANGED <<tileVars, solrVars, convVars, connVars, cogVars, daysVars, toolVars>>

\* one call of fetch_nexus_tiles
SpecFetch == InitFetchTiles /\ [][NextFetchTiles]_vars

InitConv == IdleTile /\ IdleSolr /\ IdleFetch /\ InitConvert /\ IdleRest

NextConv ==
    \/ StartDay
    \/ FetchAttempt
    \/ BuildSlice
    \/ WriteZarr
    \/ Confirm
    \/ SolrDone
    \/ CassBatch

\* one run of the conversion tool
SpecConvert == InitConv /\ [][NextConv]_vars

IdleFirst == IdleTile /\ IdleSolr /\ IdleFetch /\ IdleConvert

InitProxies == IdleFirst /\ InitConnect /\ IdleCoG /\ IdleDays /\ IdleTools

NextConnect ==
    \/ \E p \in Procs : ReadConfig(p)
    \/ \E p \in Procs : Acquire(p)
    \/ \E p \in Procs : GetCluster(p)
    \/ \E p \in Procs : Open(p)
    \/ \E p \in Procs : Release(p)

\* CassandraProxy objects constructed concurrently
SpecConnect == InitProxies /\ [][NextConnect]_vars

InitBackend == IdleFirst /\ IdleConnect /\ InitCoG /\ IdleDays /\ IdleTools

NextCoG ==
    \/ FindTileById
    \/ FindTilesById
    \/ FindTileByPolygonAndMostRecentDayOfYear
    \/ FindTilesByMetadata
    \/ FindTilesByExactBounds
    \/ FindAllBoundaryTilesAtTime
    \/ DeriveTileId
    \/ FetchDataForTiles

\* calls of the CoGBackend methods
SpecCoG == InitBackend /\ [][NextCoG]_vars

InitDaysQuery == IdleFirst /\ IdleConnect /\ IdleCoG /\ InitDays /\ IdleTools

NextDays == FindDaysInRangeAsc

\* one call of find_days_in_range_asc
SpecDays == InitDaysQuery /\ [][NextDays]_vars

IdleAll == IdleFirst /\ IdleConnect /\ IdleCoG /\ IdleDays

\* the command line of proto-to-zarr
InitParse == IdleAll /\ InitArgs /\ IdleCreate /\ IdleTileFetch

NextParse ==
    \/ ParseArgs
    \/ Main

SpecArgs == InitParse /\ [][NextParse]_vars

\* concurrent instances of the collection-init script
InitInstances == IdleAll /\ IdleArgs /\ InitCreate /\ IdleTileFetch

NextCreate ==
    \/ \E i \in Insts : ZkStart(i)
    \/ \E i \in Insts : AcquireLock(i)
    \/ \E i \in Insts : Poll(i)
    \/ \E i \in Insts : PollSleep(i)
    \/ \E i \in Insts : AfterLoop(i)
    \/ \E i \in Insts : Create(i)
    \/ \E i \in Insts : AddSchema(i)
    \/ \E i \in Insts : ReleaseLock(i)
    \/ \E i \in Insts : Finally(i)

SpecCreate == InitInstances /\ [][NextCreate]_vars

\* every instance that can take a step eventually takes one: each is a
\* process of its own and its requests return
FairSpecCreate == SpecCreate /\ \A i \in Insts : WF_vars(InstStep(i))

\* the tileIds argument of /tilefetch
InitTileIds == IdleAll /\ IdleArgs /\ IdleCreate /\ InitTileFetch

NextTileFetch == TileFetchParseArgs

SpecTileFetch == InitTileIds /\ [][NextTileFetch]_vars

-----------------------------------------------------------------------------
(* Properties of reconstruction (C1 - C5) *)

Returned == result.status = "ok"

IsSwath == "swath_tile" \in tile.tags

IsTimeSeries == "time_series_tile" \in tile.tags

IsGrid == "grid_tile" \in tile.tags

\* flat positions of the cells of a whose mask is False
Unmasked(a) == {p \in 1 .. Len(a.cells) : a.cells[p] # Masked}

\* the observations of a decoded array that are valid numbers
ValidObs(a) == {k \in 1 .. Len(a.cells) : a.cells[k] # NaN}

\* 1-based index of x in the sorted list of the distinct entries of cells
RankIn(cells, x) ==
    Cardinality({cells[q] : q \in 1 .. Len(cells)} \cap {y \in Coords : y < x}) + 1

\* no two observations of the swath share a (latitude, longitude) pair
DistinctPoints ==
    \A k, l \in 1 .. Len(tile.latitude.cells) :
        (tile.latitude.cells[k] = tile.latitude.cells[l]
           /\ tile.longitude.cells[k] = tile.longitude.cells[l]) => k = l

\* the first index of the cell swath observation k is written to
SwathT(k) == IF result.data.shape[1] = 1 THEN 1 ELSE k

\* C1: for every stored record of the three encodings, the returned arrays
\* satisfy data.shape == (len(times), len(latitudes), len(longitudes)).
C1_ShapeInvariant ==
    Returned =>
        result.data.shape = <<PyLen(result.time), PyLen(result.latitude),
                              PyLen(result.longitude)>>

C1_Witness ==
    /\ Returned /\ IsSwath
    /\ result.data.shape = <<1, 2, 2>>
    /\ Len(tile.variable_data.shape) = 2

\* C2 as stated: a reconstructed swath of N observations has exactly N
\* unmasked cells, and each unmasked cell holds its source observation.
C2_Original ==
    (Returned /\ IsSwath) =>
        /\ Cardinality(Unmasked(result.data)) = Len(tile.variable_data.cells)
        /\ \A k \in 1 .. Len(tile.variable_data.cells) :
               At(result.data, SwathT(k), k, k) = tile.variable_data.cells[k]

\* C2 amended: a reconstructed swath has exactly one unmasked cell per valid
\* (non-NaN) source observation - N of them when all N observations are
\* valid - each holding the value of the observation it came from; an invalid
\* observation leaves its cell masked.
C2_SwathCorrespondence ==
    (Returned /\ IsSwath) =>
        /\ Cardinality(Unmasked(result.data)) =
               Cardinality(ValidObs(tile.variable_data))
        /\ \A k \in ValidObs(tile.variable_data) :
               At(result.data, SwathT(k), k, k) = tile.variable_data.cells[k]
        /\ \A k \in (1 .. Len(tile.variable_data.cells)) \ ValidObs(tile.variable_data) :
               At(result.data, SwathT(k), k, k) = Masked
        /\ (ValidObs(tile.variable_data) = 1 .. Len(tile.variable_data.cells)
               => Cardinality(Unmasked(result.data)) = Len(tile.variable_data.cells))

C2_Witness ==
    /\ Returned /\ IsSwath
    /\ tile.variable_data.cells = <<NaN, 2>>
    /\ Unmasked(result.data) = {4}

\* C3 as stated: observation k of a swath is written at [0, i, j] with i, j
\* the indices of latitudes[k], longitudes[k] in the sorted-unique latitude
\* and longitude lists; every other cell is masked. (Stated for swaths whose
\* observations lie at pairwise distinct points.)
C3_Original ==
    (Returned /\ IsSwath /\ DistinctPoints) =>
        /\ \A k \in ValidObs(tile.variable_data) :
               At(result.data, 1, RankIn(tile.latitude.cells, tile.latitude.cells[k]),
                  RankIn(tile.longitude.cells, tile.longitude.cells[k]))
                 = tile.variable_data.cells[k]
        /\ \A p \in Unmasked(result.data) :
               \E k \in ValidObs(tile.variable_data) :
                   p = Pos3(result.data.shape, 1,
                            RankIn(tile.latitude.cells, tile.latitude.cells[k]),
                            RankIn(tile.longitude.cells, tile.longitude.cells[k]))

\* the array reconstructed from source array src of a time-series tile has
\* the value of sample k at [t, k, k] for valid samples and is masked elsewhere
TimeSeriesDiagonal(a, src) ==
    /\ \A t \in 1 .. a.shape[1], i \in 1 .. a.shape[2], j \in 1 .. a.shape[3] :
           At(a, t, i, j) =
               (IF i = j /\ src.cells[i] # NaN THEN src.cells[i] ELSE Masked)

\* C4 as stated: a reconstructed time-series tile of N samples and T time
\* steps has exactly N*T unmasked cells, all on the diagonal [t, k, k] and
\* holding sample k; the same for each meta-data array.
C4_Original ==
    (Returned /\ IsTimeSeries) =>
        \A pr \in {<<result.data, tile.variable_data>>} \cup
                  {<<result.meta[m], tile.meta_data[m]>> : m \in 1 .. Len(result.meta)} :
            /\ Cardinality(Unmasked(pr[1])) = Len(pr[2].cells) * Len(tile.time.cells)
            /\ \A t \in 1 .. pr[1].shape[1], k \in 1 .. Len(pr[2].cells) :
                   At(pr[1], t, k, k) = pr[2].cells[k]

\* C4 amended: the reconstructed (T, N, N) array has exactly T unmasked cells
\* per valid (non-NaN) sample - N*T when every sample is valid - all on the
\* diagonal [t, k, k] and holding the source value of sample k; the diagonal
\* cells of an invalid sample and every off-diagonal cell are masked. The
\* same holds for each meta-data array.
C4_TimeSeriesDiagonal ==
    (Returned /\ IsTimeSeries) =>
        \A pr \in {<<result.data, tile.variable_data>>} \cup
                  {<<result.meta[m], tile.meta_data[m]>> : m \in 1 .. Len(result.meta)} :
            /\ pr[1].shape = <<Len(tile.time.cells), Len(pr[2].cells), Len(pr[2].cells)>>
            /\ Cardinality(Unmasked(pr[1])) =
                   Cardinality(ValidObs(pr[2])) * Len(tile.time.cells)
            /\ TimeSeriesDiagonal(pr[1], pr[2])
            /\ Len(result.meta) = Len(tile.meta_data)

C4_Witness ==
    /\ Returned /\ IsTimeSeries
    /\ Len(tile.time.cells) = 2
    /\ tile.variable_data.cells = <<2, 1>>
    /\ Len(result.meta) = 1
    /\ Unmasked(result.data) = {1, 4, 5, 8}

\* C5 as stated: a record matching zero or more than one of the three tags
\* ends in a CorruptTileError and produces no tile.
C5_Original ==
    (result # NoResult /\ Cardinality(tile.tags) # 1) =>
        result.status = "CorruptTileError"

-----------------------------------------------------------------------------
(* Properties of the index query and of the blob fetch (C6, C10) *)

\* C6: for tiles with min_time <= max_time and queries with start <= end,
\* find_tiffs_in_date_range selects a tile of the dataset exactly when
\* tile.min_time <= end and tile.max_time >= start.
C6_TimeOverlap ==
    (qstate = "done" /\ query.start <= query.end) =>
        \A d \in index :
            DatasetClause(d, query.dataset) =>
                (d \in qres <=>
                    (d.min_time <= query.end /\ d.max_time >= query.start))

C6_Witness ==
    /\ qstate = "done"
    /\ query = [dataset |-> "dsA", start |-> 1, end |-> 2]
    /\ [dataset |-> "dsA", min_time |-> 0, max_time |-> 3] \in qres
    /\ [dataset |-> "dsA", min_time |-> 3, max_time |-> 3] \in index \ qres

\* the requested ids (whatever their type) that have a row, in request order
ExistingRequested ==
    Lookup([k \in 1 .. Len(request) |-> request[k].uuid], store)

\* C10 as stated: fetch_nexus_tiles returns, in request order, one record for
\* each requested id that exists in the blob store and nothing for the
\* others, and never fails.
C10_Original ==
    fstate # "pending" =>
        /\ fstate = "returned"
        /\ fres = ExistingRequested

\* C10 amended: fetch_nexus_tiles returns, in request order, one record for
\* each requested id that is passed as a string (str or unicode) and exists
\* in the blob store, and nothing for an id that does not exist; arguments of
\* any other type are ignored. An unknown id is skipped and never makes the
\* call fail, so the result may be shorter than the request; the call fails
\* (ValueError) exactly when a string argument is not a well-formed UUID.
C10_FetchSkipsUnknown ==
    fstate # "pending" =>
        /\ fstate = "ValueError" <=>
              \E k \in 1 .. Len(request) :
                  IsString(request[k]) /\ request[k].uuid = Malformed
        /\ fstate = "returned" =>
              /\ fres = SelectSeq2([k \in 1 .. Len(StringArgs(request)) |->
                                       StringArgs(request)[k].uuid], store)
              /\ Len(fres) <= Len(request)
              /\ \A k \in 1 .. Len(fres) : fres[k] \in store

C10_Witness ==
    /\ fstate = "returned"
    /\ store = {1, 3}
    /\ request = <<[type |-> "str", uuid |-> 3], [type |-> "unicode", uuid |-> 2]>>
    /\ fres = <<3>>

-----------------------------------------------------------------------------
(* Properties of the batch fetch and batch delete (C7, C8) *)

\* the pass of the fetch loop that was made last
LastAttempt == attempts[Len(attempts)]

\* the run ended in the fetch of a day
FetchEnded == pc = "aborted" /\ attempts # <<>>

\* C7 as stated: a batch fetch in which a blob fails to decode never fails
\* as a whole; it yields the valid tiles of the other ids and reports the
\* failed id.
C7_Original ==
    /\ FetchEnded => LastAttempt.raised # DecodeError
    /\ pc = "slice" => Len(tiles) + Len(failed) = Len(ids)

\* the ids an attempt got a row for: all of them when no statement failed,
\* none when the driver raised
Succeeded(a) == IF a.stmt = NoStatement THEN Range(a.req) ELSE {}

-----------------------------------------------------------------------------
(* Properties of the CassandraProxy constructor (C11) *)

\* C11: when several CassandraProxy objects are constructed concurrently,
\* connection.setup is called at most once under every interleaving, and a
\* constructor returns only after a connection exists.
C11_SingleSetup ==
    /\ setup_calls <= 1
    /\ \A p \in Procs : cpc[p] = "returned" => cluster # NoCluster

\* one constructor has just called setup and still holds INIT_LOCK while
\* another one waits at the with statement
C11_Witness ==
    \E p \in Procs, q \in Procs :
        /\ p # q
        /\ cpc[p] = "exit" /\ lock = p
        /\ cpc[q] = "with"
        /\ setup_calls = 1

-----------------------------------------------------------------------------
(* Properties of the CoG backend (C12 - C14, C17, C18) *)

UnsupportedOps ==
    {"find_tiles_by_exact_bounds", "find_tiles_by_metadata",
     "find_all_boundary_tiles_at_time"}

\* C12: find_tiles_by_exact_bounds, find_tiles_by_metadata and
\* find_all_boundary_tiles_at_time raise NotImplementedError on every call
\* and never return a result, empty or not.
C12_Unsupported ==
    call.op \in UnsupportedOps => cres.status = "NotImplementedError"

C12_Witness ==
    /\ call.op = "find_tiles_by_exact_bounds"
    /\ call.bounds.start_time < call.bounds.end_time
    /\ cres = Exc("NotImplementedError")

\* the ids the creation path derives from dataset + bounds + time
DerivedIds ==
    {r.value : r \in {x \in {ToUrl(d, b) : d \in Datasets, b \in BoundsArgs} :
                         x.status = "ok"}}

\* C13 as stated: find_tile_by_id and find_tiles_by_id accept only ids that
\* were derived from dataset + bounds + time; an arbitrary string is not
\* accepted as a tile.
C13_Original ==
    (call.op \in {"find_tile_by_id", "find_tiles_by_id"} /\ cres.status = "ok") =>
        \A k \in 1 .. Len(cres.value) : cres.value[k] \in DerivedIds

\* the days of year the store holds for the dataset and bbox of the call
CandidateDays ==
    IF call.dataset = ds.name /\ call.box = ds.box
    THEN {x \in ds.days : x <= call.day_of_year}
    ELSE {}

\* C14 as stated: find_tile_by_polygon_and_most_recent_day_of_year returns
\* the tile of the dataset with identical bbox whose day of year is the
\* greatest value <= the requested day, and raises NotFoundError when there
\* is none.
C14_Original ==
    call.op = "find_tile_by_polygon_and_most_recent_day_of_year" =>
        IF CandidateDays = {}
        THEN cres.status = "NotFoundError"
        ELSE /\ cres.status = "ok"
             /\ cres.value =
                  <<[dataset |-> call.dataset, box |-> call.box,
                     day_of_year |-> CHOOSE x \in CandidateDays :
                                        \A y \in CandidateDays : y <= x]>>

\* C17 as stated: fetching the tile whose id is derived from request bounds
\* yields a tile whose latitudes, longitudes and times all lie within the
\* bounds (inclusive).
C17_Original ==
    (call.op = "fetch_data_for_tiles" /\ Len(call.tiles) > 0) =>
        /\ cres.status = "ok"
        /\ \A k \in 1 .. Len(call.tiles) :
             LET b == call.tiles[k]
                 t == cres.value[k]
             IN  /\ \A x \in t.latitudes : InRange(x, b.box.min_lat, b.box.max_lat)
                 /\ \A x \in t.longitudes : InRange(x, b.box.min_lon, b.box.max_lon)
                 /\ \A x \in t.times : InRange(x, b.start_time, b.end_time)

\* C18 as stated: deriving the tile id for a dataset, bounds and time range
\* yields an id, and always the same one for the same arguments.
C18_Original ==
    call.op = "__to_url" =>
        /\ cres.status = "ok"
        /\ cres = ToUrl(call.dataset, call.bounds)

-----------------------------------------------------------------------------
(* Properties of the Solr statistics queries (C15, C16) *)

DatasetDocs == {d \in index : d.dataset = query.dataset}

\* C15 as stated: date_range_for_dataset returns the smallest min_time and
\* the largest max_time over the tiles of the dataset (min_time <= max_time)
\* and fails with NotFoundError when the dataset has no tile.
C15_Original ==
    qstate \notin {"idle", "pending", "done"} =>
        IF DatasetDocs = {}
        THEN qstate = "NotFoundError"
        ELSE /\ qstate = "range"
             /\ \E lo \in DatasetDocs, hi \in DatasetDocs :
                    /\ \A d \in DatasetDocs :
                          lo.min_time <= d.min_time /\ d.max_time <= hi.max_time
                    /\ qrange = <<lo.min_time, hi.max_time>>
             /\ qrange[1] <= qrange[2]

\* the day an instant falls on, with days of two instants
DayOf(t) == t \div 2

StrictlyAscending(seq) ==
    \A i \in 1 .. Len(seq) - 1 : seq[i] < seq[i + 1]

\* every document carries tile_min_time_dt
AllHaveTileMinTime == \A d \in dindex : d.tile_min_time = d.min_time

\* C16 as stated: find_days_in_range_asc returns, strictly ascending and each
\* once, the day timestamps of the tiles in the box and time range whose
\* min_time truncated to the day equals their max_time truncated to the day.
C16_Original ==
    (dstate = "done" /\ AllHaveTileMinTime) =>
        /\ StrictlyAscending(days)
        /\ Range(days) =
             {d.min_time : d \in
                {e \in dindex :
                    /\ e.dataset = dquery.ds
                    /\ dquery.box.min_lat <= e.lat /\ e.lat <= dquery.box.max_lat
                    /\ dquery.box.min_lon <= e.lon /\ e.lon <= dquery.box.max_lon
                    /\ dquery.start_time <= e.min_time
                    /\ e.min_time <= dquery.end_time
                    /\ DayOf(e.min_time) = DayOf(e.max_time)}}

\* C16 amended: find_days_in_range_asc returns, strictly ascending and each
\* once, the min_time_dt values (seconds since the epoch) of the documents of
\* the dataset whose geo point lies in the box, whose tile_min_time_dt lies
\* in [start_time, end_time] and whose min_time_dt equals max_time_dt exactly.
C16_DaysInRange ==
    dstate = "done" =>
        /\ StrictlyAscending(days)
        /\ Range(days) =
             {d.min_time : d \in
                {e \in dindex :
                    /\ e.dataset = dquery.ds
                    /\ dquery.box.min_lat <= e.lat /\ e.lat <= dquery.box.max_lat
                    /\ dquery.box.min_lon <= e.lon /\ e.lon <= dquery.box.max_lon
                    /\ e.tile_min_time # NoField
                    /\ dquery.start_time <= e.tile_min_time
                    /\ e.tile_min_time <= dquery.end_time
                    /\ e.min_time = e.max_time}}

\* two matching documents of different instants at the two points of the
\* queried box: the result lists both instants, the earlier one first
C16_Witness ==
    /\ dstate = "done"
    /\ days = <<0, 2>>
    /\ \E d \in dindex, e \in dindex :
          /\ d.min_time = 2 /\ d.lat = 10
          /\ e.min_time = 0 /\ e.lat = 20

-----------------------------------------------------------------------------
(* Further properties of reconstruction (C19, C20) *)

\* C19: for every encoding, each auxiliary (meta) variable returned by
\* reconstruction has exactly the shape of the returned data array.
C19_MetaShape ==
    Returned =>
        \A m \in 1 .. Len(result.meta) : result.meta[m].shape = result.data.shape

C19_Witness ==
    /\ Returned /\ IsGrid
    /\ Len(result.meta) = 1
    /\ tile.variable_data.shape = <<2, 2>>
    /\ tile.meta_data[1].shape = <<1, 2, 2>>
    /\ result.meta[1].shape = <<1, 2, 2>>

\* C20: a grid record with 2-D (lat, lon) data is returned as (1, lat, lon)
\* data holding the same values in the same positions (an invalid value is
\* the masked value of its position); data that already has 3 dimensions
\* keeps its shape.
C20_GridLift ==
    (Returned /\ IsGrid) =>
        LET src == tile.variable_data
        IN  IF Len(src.shape) = 2
            THEN /\ result.data.shape = <<1, src.shape[1], src.shape[2]>>
                 /\ \A i \in 1 .. src.shape[1], j \in 1 .. src.shape[2] :
                      LET v == src.cells[(i - 1) * src.shape[2] + j]
                      IN  At(result.data, 1, i, j) = IF v = NaN THEN Masked ELSE v
            ELSE result.data.shape = src.shape

C20_Witness ==
    /\ Returned /\ IsGrid
    /\ tile.variable_data = Arr(<<2, 2>>, <<NaN, 1, 1, 1>>)
    /\ result.data.shape = <<1, 2, 2>>
    /\ At(result.data, 1, 1, 1) = Masked
    /\ At(result.data, 1, 2, 1) = 1

\* C21: for a swath record whose time values are all identical the returned
\* time array has exactly one element, that value; otherwise the time array
\* is returned with all its values, not collapsed.
C21_TimeCollapse ==
    (Returned /\ IsSwath) =>
        LET src == tile.time.cells
        IN  IF \A k \in 1 .. Len(src) : src[k] = src[1]
            THEN result.time = [shape |-> <<1>>, cells |-> <<src[1]>>]
            ELSE result.time = [shape |-> <<Len(src)>>, cells |-> src]

C21_Witness ==
    /\ Returned /\ IsSwath
    /\ tile.time.cells = <<100, 100>>
    /\ result.time.cells = <<100>>
    /\ result.data.shape = <<1, 2, 2>>

-----------------------------------------------------------------------------
(* Properties of the conversion run (C22, C23, C25) *)

\* lines 391-397: of the response to the per-day query only the documents are
\* read; numFound is not, and no further page is requested, so nothing tells
\* the run that a day has more tiles than the page
HasMoreSignalled == FALSE

\* C22 as stated: the per-day tile-id query of the conversion tool gathers
\* every tile of the dataset with that start-of-day time, or signals that
\* more remain; a day with more tiles than the page size is never silently
\* cut to the first page.
C22_Original ==
    (pc = "fetch" /\ attempts = <<>>) =>
        \/ Range(ids) = Range(day_ids[day])
        \/ HasMoreSignalled

\* the deletion code has been entered or has removed something
Deleting ==
    \/ pc \in {"solr_delete", "cass_batch", "cass_attempt", "delete_aborted"}
    \/ solr_deleted \cup cass_deleted # {}

\* C23: the deletion of source tiles from Solr or Cassandra is entered only
\* after the zarr store has been written, only when --keep is absent, and
\* only when --yes was given or the prompt was answered 'y'; the empty answer
\* and 'n' end the run with nothing deleted, and any other answer asks again.
C23_DeleteGated ==
    /\ Deleting => /\ zarr_written
                   /\ ~args.keep
                   /\ args.yes \/ answer = "y"
    /\ answer \in {"", "n"} => pc = "done" /\ ~Deleting
    /\ answer \notin {NoAnswer, "", "n", "y"} => pc = "confirm_again" /\ ~Deleting
    /\ answer # NoAnswer => zarr_written /\ ~args.keep /\ ~args.yes

C23_Witness ==
    /\ pc = "cass_batch"
    /\ ~args.keep /\ ~args.yes
    /\ answer = "y"
    /\ zarr_written
    /\ Len(slices) = 2

-----------------------------------------------------------------------------
(* Properties of the command line of proto-to-zarr (C24) *)

\* something exists where the destination points: the path itself for a
\* local destination, any object below the prefix for a bucket
DestOccupied ==
    LET url == UrlParse(argv.dest)
    IN  CASE url.scheme = ""     -> argv.dest \in fsys.local
          [] url.scheme = "file" -> url.path \in fsys.local
          [] url.scheme = "s3"   -> fsys.s3 # {}
          [] OTHER               -> FALSE

\* the destination is of a supported type and comes with its credentials
Supported ==
    LET store_type == StoreType(UrlParse(argv.dest).scheme)
    IN  /\ store_type # Unsupported
        /\ store_type = "s3" => CredentialsOk(argv.aws)

\* C24 as stated: when something already exists at the destination and
\* --overwrite was not given, the tool refuses to run with the ValueError
\* 'Something already exists' before any connection is made; with
\* --overwrite the existence check never blocks the run.
C24_Original ==
    (pstate # "start" /\ Supported) =>
        /\ (~argv.overwrite /\ DestOccupied) => (pstate = AlreadyExists /\ ~started)
        /\ argv.overwrite => pstate = "returned"

-----------------------------------------------------------------------------
(* Properties of the collection-init script (C27 - C29) *)

\* instance i is inside the with block
InSection(i) ==
    ipc[i] \in {"poll", "sleep", "after_loop", "create", "schema", "exit_with"}

\* at most one instance is inside the check-and-create section
OneInSection ==
    \A i, j \in Insts : (InSection(i) /\ InSection(j)) => i = j

\* C27 as stated: at most one instance is inside the check-and-create section
\* at any time, and the CREATE request is issued at most once in total.
C27_Original ==
    /\ OneInSection
    /\ Len(creates) <= 1

\* C27 amended: at most one instance is inside the check-and-create section
\* at any time (ZooKeeper lock '/collection-creator'); an instance issues the
\* CREATE request at most once, never while the collection exists and never
\* after a CREATE that succeeded: an instance that acquires the lock after
\* the collection was created sees it exists and does not create it again.
\* After a CREATE that failed the next instance issues the request again.
C27_CreateGuarded ==
    /\ OneInSection
    /\ \A i \in Insts : InSection(i) => zlock = i
    /\ \A k \in 1 .. Len(creates) : ~creates[k].existed
    /\ \A k, l \in 1 .. Len(creates) :
           k < l => /\ creates[k].response # "ok"
                    /\ creates[k].inst # creates[l].inst

C27_Witness ==
    /\ Len(creates) = 2
    /\ creates[1].response = "failure"
    /\ creates[2].response = "ok"
    /\ nexustiles
    /\ \A i \in Insts : ipc[i] = "done"

\* a status after which the collection may be created
Ready(status) ==
    /\ status.kind = "status"
    /\ status.live_nodes >= MINIMUM_NODES
    /\ ~status.listed

\* C28: the CREATE request is issued only when the most recent cluster-status
\* poll of the instance succeeded, reported at least MINIMUM_NODES live nodes
\* and did not list 'nexustiles'; the schema fields are added only after a
\* CREATE response without 'failure'.
C28_CreateWhenReady ==
    /\ \A i \in Insts : ipc[i] = "create" => Ready(istatus[i])
    /\ \A k \in 1 .. Len(creates) : Ready(creates[k].status)
    /\ \A i \in Insts :
           (ipc[i] = "schema" \/ i \in schema) =>
               \E k \in 1 .. Len(creates) :
                   creates[k].inst = i /\ creates[k].response = "ok"

C28_Witness ==
    /\ schema = {2}
    /\ Len(creates) = 1
    /\ creates[1].inst = 2
    /\ creates[1].status.live_nodes = MINIMUM_NODES
    /\ iattempts[2] = 1
    /\ ipc[2] = "done"

\* instance i has sent a CREATE request
Created(i) == \E k \in 1 .. Len(creates) : creates[k].inst = i

\* C29: the wait loop always terminates: an instance makes at most
\* MAX_RETRIES + 1 unsuccessful polls; once that count exceeds MAX_RETRIES
\* the instance raises RuntimeError and never issues CREATE; every instance
\* ends, and when it has ended its ZooKeeper client is stopped and closed
\* and the lock is free of it.
C29_WaitTerminates ==
    /\ [](\A i \in Insts :
             /\ iattempts[i] <= MAX_RETRIES + 1
             /\ iattempts[i] > MAX_RETRIES =>
                    /\ ipc[i] \in {"sleep", "after_loop", "exit_with", "finally", "done"}
                    /\ ipc[i] \notin {"sleep", "after_loop"} =>
                           ioutcome[i] = "RuntimeError: retries"
                    /\ ~Created(i)
             /\ ipc[i] = "done" => zk[i] = "closed" /\ zlock # i)
    /\ <>[](\A i \in Insts : ipc[i] = "done" /\ zk[i] = "closed")

C29_Witness ==
    /\ ipc[1] = "done"
    /\ ioutcome[1] = "RuntimeError: retries"
    /\ iattempts[1] = MAX_RETRIES + 1
    /\ istatus[1] = Unreachable
    /\ zk[1] = "closed"
    /\ zlock = 0
    /\ creates = <<>>

-----------------------------------------------------------------------------
(* Properties of TileFetch.parse_args (C30) *)

\* an entry that is the text of one well-formed UUID
ValidEntry(entry) == entry \in {<<u>> : u \in UuidTexts}

\* C30: parse_args returns exactly the comma-separated entries of tileIds
\* that parse as UUIDs, in their original order, and drops the others; when
\* no entry is a valid UUID it fails with NexusProcessingException code 400
\* and never returns an empty list.
C30_ValidIdsKept ==
    tfstate # "pending" =>
        LET entries == Split(tileIds)
        IN  /\ tfstate \in {"returned", "NexusProcessingException 400"}
            /\ tfstate = "NexusProcessingException 400" <=>
                   \A k \in 1 .. Len(entries) : ~ValidEntry(entries[k])
            /\ tfstate = "returned" =>
                   /\ kept_ids = SelectSeq(entries, ValidEntry)
                   /\ kept_ids # <<>>

C30_Witness ==
    /\ tfstate = "returned"
    /\ tileIds = <<"22222222222222222222222222222222", Comma, "abc", Comma,
                   "11111111-1111-1111-1111-111111111111">>
    /\ kept_ids = <<<<"22222222222222222222222222222222">>,
                    <<"11111111-1111-1111-1111-111111111111">>>>

=============================================================================
